---- MODULE Spec2Model ----
(***************************************************************************)
(* Resumable batch extraction engine of berg_nih:                          *)
(*   scripts/progress_tracker.py              the progress ledger          *)
(*   scripts/transcript_extractor_human_batch.py   the batch runner        *)
(*   scripts/vpn_batch_orchestrator.py        the batch orchestrator       *)
(* Each component has its own specification over the shared variables; a   *)
(* specification leaves the variables of the other components unchanged.   *)
(***************************************************************************)
EXTENDS Integers, Sequences, FiniteSets, TLC

VARIABLES
    \* ---- progress_tracker.py: ProgressTracker
    catalog_data,      \* catalog_data['videos'] as a sequence of video ids
    progress_data,     \* in-memory ledger: processed_videos + master_progress
    progress_file,     \* the ledger file on disk
    ledger_pc,         \* position of the ledger process
    ledger_call,       \* the last ledger operation called, with its arguments
    save_from,         \* ledger file content when the running save began
    save_to,           \* ledger file content the running save is writing
    calls,             \* number of ledger operations called so far
    resume_result,     \* value returned by the last get_next_resume_index()
    batch_files,       \* berg_human_batch_*.json files on disk
    \* ---- transcript_extractor_human_batch.py: one run of the script
    ext_pc,            \* position of the batch runner process
    ext_args,          \* --start-index, --target-videos, --videos-per-batch
    input_videos,      \* data['videos'] of --input-file
    batches,           \* the batches process_human_like_batches split off
    batch_number,      \* number of the batch being processed (1-based)
    batch_filename,    \* output file name of the batch being processed
    item_index,        \* next item of the batch to attempt (1-based)
    results,           \* process_batch's results list
    run_files,         \* batch_files list returned by process_human_like_batches
    clock,             \* time.time(), in units of one request
    database,          \* videos of berg_complete_database.json
    stdout,            \* lines the process printed on stdout
    exit_code,         \* exit status of the process
    crash_at,          \* where the process was when it died
    at_batch_start,    \* disk state observed when the current batch began
    \* ---- vpn_batch_orchestrator.py: VPNBatchOrchestrator
    orch_pc,           \* position of the orchestrator
    orch_args,         \* --total-videos, --batch-size, --start-index
    start_index,       \* run_automated_batches' start_index parameter
    target_end_index,  \* start_index + total_videos
    processed_videos,  \* self.processed_videos
    orch_result,       \* what run_automated_batches returned
    history,           \* batch attempts and VPN switches, in order
    batch_processes,   \* batch subprocesses of this run that have not ended
    last_run,          \* how the run_batch_script call just made went
    \* ---- get_transcript of transcript_extractor_human_batch.py and of
    \* ---- transcript_extractor.py: the request executor
    exec_impl,         \* which of the two classes the executor object is
    exec_pc,           \* position of the running get_transcript call
    exec_video,        \* video_id of the call
    attempt,           \* loop variable of `for attempt in range(max_retries)`
    exec_log,          \* delays and fetches of the call, in order
    outcome,           \* what the last call returned
    ip_blocked,        \* self.ip_blocked
    request_count,     \* self.request_count
    use_proxies,       \* self.use_proxies
    proxy_list,        \* self.proxy_list
    proxy_next,        \* position in proxy_list that next(proxy_cycle) yields
    current_proxy,     \* self.current_proxy
    failed_proxies,    \* self.failed_proxies
    exec_calls,        \* number of get_transcript calls so far
    \* ---- transcript_extractor.py: the sleeps of one _rate_limited_request
    backoff_pc,        \* position of the retry loop
    backoff_attempt,   \* loop variable of `for attempt in range(max_retries)`
    backoff_delays,    \* the delays slept after the failed attempts, in order
    backoff_call,      \* the last direct call of _calculate_backoff_delay
    \* ---- merge_batch_files.py: one run of merge_batch_files
    merge_pc,          \* position of the merge
    merge_glob,        \* glob.glob(batch_pattern): the batch files, in its order
    merged_data,       \* what merge_batch_files returned and wrote
    \* ---- transcript_extractor_human_batch.py: --create-parallel and the
    \* ---- scripts it creates, run side by side
    par_pc,            \* position of main --create-parallel
    par_args,          \* --target-videos, --start-index, --create-parallel, ...
    scripts_created,   \* the arguments written into each parallel script
    shard_run,         \* per script: where its process_human_like_batches is
    shard_now,         \* int(time.time()) of the machine the scripts run on
    shard_writes,      \* which script wrote which batch file path
    \* ---- _get_next_proxy called on its own
    proxy_call,        \* the last _get_next_proxy call
    proxy_calls,       \* number of _get_next_proxy calls so far
    \* ---- vpn_batch_orchestrator.py: the choice of the VPN location
    current_location,  \* self.current_location
    locations_used,    \* self.locations_used
    vpn_selected,      \* the last switch_vpn_location call
    vpn_switches       \* number of switch_vpn_location calls so far

ledger_vars == <<catalog_data, progress_data, progress_file, ledger_pc,
                 ledger_call, save_from, save_to, calls, resume_result>>

ext_vars == <<ext_pc, ext_args, input_videos, batches, batch_number,
              batch_filename, item_index, results, run_files, clock, database,
              stdout, exit_code, crash_at, at_batch_start>>

orch_vars == <<orch_pc, orch_args, start_index, target_end_index,
               processed_videos, orch_result, history, batch_processes,
               last_run>>

exec_vars == <<exec_impl, exec_pc, exec_video, attempt, exec_log, outcome,
               ip_blocked, request_count, use_proxies, proxy_list, proxy_next,
               current_proxy, failed_proxies, exec_calls>>

backoff_vars == <<backoff_pc, backoff_attempt, backoff_delays, backoff_call>>

merge_vars == <<merge_pc, merge_glob, merged_data>>

shard_vars == <<par_pc, par_args, scripts_created, shard_run, shard_now,
                shard_writes>>

proxy_vars == <<proxy_call, proxy_calls>>

vpn_vars == <<current_location, locations_used, vpn_selected, vpn_switches>>

select_vars == <<proxy_vars, vpn_vars>>

\* The variables of the stand-alone tools and helpers.
tool_vars == <<backoff_vars, merge_vars, shard_vars, select_vars>>

vars == <<ledger_vars, batch_files, ext_vars, orch_vars, exec_vars, tool_vars>>

----------------------------------------------------------------------------
\* Bounds of the model.
NumVideos == 2          \* distinct video ids the ledger operations draw from
MaxPos == 2             \* catalog positions 0..MaxPos passed to the ledger
MaxCalls == 2           \* ledger operations per behaviour
MaxResumePos == 5       \* positions 0..MaxResumePos of the resume-index inputs

VideoIdPool == <<"vidA", "vidB", "vidC", "vidD", "vidE", "vidF", "vidG", "vidH">>
VideoIds == {VideoIdPool[i] : i \in 1..NumVideos}
Positions == 0..MaxPos
BatchRefs == {"batch_1.json", "batch_2.json"}

SetMax(S) == CHOOSE m \in S : \A x \in S : x <= m
SetMin(S) == CHOOSE m \in S : \A x \in S : m <= x
Min2(a, b) == IF a <= b THEN a ELSE b

----------------------------------------------------------------------------
\* ProgressTracker: the ledger.

NoRecords == [v \in {} |-> 0]

\* _load_progress, else branch: the ledger of a first run.
FreshProgress ==
    [processed_videos |-> NoRecords,
     videos_processed |-> 0,
     last_processed_index |-> -1]

\* The ledger file: absent, complete (json.dump ran to the end and the file
\* was closed), empty (opened with 'w', nothing flushed yet) or partial (a
\* prefix of the JSON text was flushed).
AbsentFile == [state |-> "absent", data |-> FreshProgress]
CompleteFile(d) == [state |-> "complete", data |-> d]
EmptyFile == [state |-> "empty", data |-> FreshProgress]
PartialFile == [state |-> "partial", data |-> FreshProgress]

\* [v['catalog_index'] for v in processed_videos.values()], as a set.
ProcessedIndices(pd) ==
    {pd.processed_videos[v].catalog_index : v \in DOMAIN pd.processed_videos}

\* The loop `for i in range(max_processed + 1)` of get_next_resume_index.
RECURSIVE FirstGapFrom(_, _, _)
FirstGapFrom(i, max_processed, all_processed) ==
    IF i > max_processed THEN max_processed + 1
    ELSE IF i \notin all_processed THEN i
    ELSE FirstGapFrom(i + 1, max_processed, all_processed)

\* A faulty resume index: the frontier only, gaps are not revisited.
ResumeIgnoringGaps(pd) ==
    IF ProcessedIndices(pd) = {} THEN 0 ELSE SetMax(ProcessedIndices(pd)) + 1

get_next_resume_index(pd) ==
    IF ProcessedIndices(pd) = {} THEN 0
    ELSE FirstGapFrom(0, SetMax(ProcessedIndices(pd)), ProcessedIndices(pd))

is_video_processed(pd, video_id) == video_id \in DOMAIN pd.processed_videos

\* _find_video_in_catalog: the first index holding video_id, if any.
CatalogMatches(video_id) ==
    {i \in 0..(Len(catalog_data) - 1) : catalog_data[i + 1] = video_id}
InCatalog(video_id) == CatalogMatches(video_id) # {}
_find_video_in_catalog(video_id) == SetMin(CatalogMatches(video_id))

\* No ledger operation has been called in this process yet.
NoCall == [op |-> "None", video_id |-> "None", known |-> FALSE, returned |-> "None"]

\* The record mark_video_processed stores; additional_data, when given,
\* overrides the status.
MarkedRecord(catalog_index, batch_file, additional_data) ==
    [catalog_index |-> catalog_index,
     batch_file |-> batch_file,
     status |-> IF additional_data = "None" THEN "success" ELSE additional_data]

\* The dict assignment processed_videos[video_id] = record.
PutRecord(pv, video_id, rec) ==
    [v \in (DOMAIN pv) \cup {video_id} |-> IF v = video_id THEN rec ELSE pv[v]]

\* mark_video_processed up to its call of _save_progress.
MarkVideoProcessed ==
    /\ ledger_pc = "idle"
    /\ calls < MaxCalls
    /\ \E video_id \in VideoIds, catalog_index \in Positions,
          batch_file \in BatchRefs, additional_data \in {"None", "failed"} :
          LET pv == PutRecord(progress_data.processed_videos, video_id,
                       MarkedRecord(catalog_index, batch_file, additional_data))
              idx == {pv[v].catalog_index : v \in DOMAIN pv}
          IN  /\ progress_data' =
                    [processed_videos |-> pv,
                     videos_processed |-> Cardinality(DOMAIN pv),
                     last_processed_index |-> SetMax(idx)]
              /\ ledger_call' = [op |-> "mark_video_processed",
                                 video_id |-> video_id,
                                 known |-> is_video_processed(progress_data, video_id),
                                 returned |-> "None"]
    /\ ledger_pc' = "save_open"
    /\ save_from' = progress_file
    /\ save_to' = CompleteFile(progress_data')
    /\ calls' = calls + 1
    /\ UNCHANGED <<catalog_data, progress_file, resume_result, batch_files, ext_vars, orch_vars, exec_vars, tool_vars>>

\* _save_progress, open(progress_file, 'w'): the file is truncated before
\* anything is written.
SaveOpen ==
    /\ ledger_pc = "save_open"
    /\ progress_file' = EmptyFile
    /\ ledger_pc' = "save_dump"
    /\ UNCHANGED <<catalog_data, progress_data, ledger_call, save_from, save_to,
                   calls, resume_result, batch_files, ext_vars, orch_vars, exec_vars, tool_vars>>

\* _save_progress, json.dump: the buffered writer flushes a prefix of the text.
SaveFlush ==
    /\ ledger_pc = "save_dump"
    /\ progress_file = EmptyFile
    /\ progress_file' = PartialFile
    /\ UNCHANGED <<catalog_data, progress_data, ledger_pc, ledger_call, save_from,
                   save_to, calls, resume_result, batch_files, ext_vars, orch_vars, exec_vars, tool_vars>>

\* _save_progress, leaving the with block: everything is written and closed.
SaveClose ==
    /\ ledger_pc = "save_dump"
    /\ progress_file' = CompleteFile(progress_data)
    /\ ledger_pc' = "idle"
    /\ UNCHANGED <<catalog_data, progress_data, ledger_call, save_from, save_to,
                   calls, resume_result, batch_files, ext_vars, orch_vars, exec_vars, tool_vars>>

\* The process dies (kill, power loss) at any point; memory is lost, the
\* file stays as it is.
LedgerCrash ==
    /\ ledger_pc \in {"idle", "save_open", "save_dump"}
    /\ ledger_pc' = "crashed"
    /\ UNCHANGED <<catalog_data, progress_data, progress_file, ledger_call,
                   save_from, save_to, calls, resume_result, batch_files, ext_vars, orch_vars, exec_vars, tool_vars>>

\* ProgressTracker.__init__ -> _load_progress in a new process: json.load of an
\* empty or truncated file raises, and the constructor fails.
LoadProgress ==
    /\ ledger_pc = "crashed"
    /\ IF progress_file.state = "absent"
       THEN progress_data' = FreshProgress /\ ledger_pc' = "idle"
       ELSE IF progress_file.state = "complete"
       THEN progress_data' = progress_file.data /\ ledger_pc' = "idle"
       ELSE progress_data' = FreshProgress /\ ledger_pc' = "load_failed"
    /\ ledger_call' = NoCall
    /\ UNCHANGED <<catalog_data, progress_file, save_from, save_to, calls,
                   resume_result, batch_files, ext_vars, orch_vars, exec_vars, tool_vars>>

\* get_next_resume_index() called on the loaded ledger.
GetNextResumeIndex ==
    /\ ledger_pc = "idle"
    /\ resume_result' = get_next_resume_index(progress_data)
    /\ ledger_call' = [op |-> "get_next_resume_index", video_id |-> "None",
                       known |-> FALSE, returned |-> "index"]
    /\ UNCHANGED <<catalog_data, progress_data, progress_file, ledger_pc,
                   save_from, save_to, calls, batch_files, ext_vars, orch_vars, exec_vars, tool_vars>>

----------------------------------------------------------------------------
\* Batch files on disk.  A file name berg_human_batch_{n}_of_{m}_{timestamp}.json
\* is the triple <<n, m, timestamp>>; sorted(batch_files) orders the names as
\* strings, which for one-digit batch numbers and timestamps of equal length is
\* the lexicographic order of the triples.
NameLess(a, b) ==
    \/ a[1] < b[1]
    \/ a[1] = b[1] /\ a[2] < b[2]
    \/ a[1] = b[1] /\ a[2] = b[2] /\ a[3] < b[3]

RECURSIVE SortedFiles(_)
SortedFiles(files) ==
    IF files = {} THEN <<>>
    ELSE LET first == CHOOSE f \in files :
                         \A g \in files \ {f} : NameLess(f.name, g.name)
         IN  <<first>> \o SortedFiles(files \ {first})

\* scan_existing_batches, the loop over batch_data['videos'] of one file: every
\* video found in the catalog is stored with status "success" and the name of
\* this file, whatever its transcript_result and whatever was stored before.
RECURSIVE ScanVideos(_, _, _, _)
ScanVideos(acc, videos, i, file_name) ==
    IF i > Len(videos) THEN acc
    ELSE IF InCatalog(videos[i].video_id)
    THEN ScanVideos(
            [pv |-> PutRecord(acc.pv, videos[i].video_id,
                       [catalog_index |-> _find_video_in_catalog(videos[i].video_id),
                        batch_file |-> file_name,
                        status |-> "success"]),
             total_scanned |-> acc.total_scanned + 1],
            videos, i + 1, file_name)
    ELSE ScanVideos(acc, videos, i + 1, file_name)

\* scan_existing_batches, the loop over sorted(batch_files): a file json.load
\* cannot read is reported and skipped.
RECURSIVE ScanFiles(_, _, _)
ScanFiles(acc, files, k) ==
    IF k > Len(files) THEN acc
    ELSE IF files[k].state = "complete"
    THEN ScanFiles(ScanVideos(acc, files[k].videos, 1, files[k].name), files, k + 1)
    ELSE ScanFiles(acc, files, k + 1)

\* scan_existing_batches up to its call of _save_progress; with no batch file
\* it returns at once.
ScanExistingBatches ==
    /\ ledger_pc = "idle"
    /\ calls < MaxCalls
    /\ calls' = calls + 1
    /\ ledger_call' = [op |-> "scan_existing_batches", video_id |-> "None",
                       known |-> FALSE, returned |-> "None"]
    /\ IF batch_files = {}
       THEN UNCHANGED <<progress_data, ledger_pc, save_from, save_to>>
       ELSE LET scanned == ScanFiles([pv |-> progress_data.processed_videos,
                                      total_scanned |-> 0],
                                     SortedFiles(batch_files), 1)
                idx == {scanned.pv[v].catalog_index : v \in DOMAIN scanned.pv}
            IN  /\ progress_data' =
                      [processed_videos |-> scanned.pv,
                       videos_processed |-> scanned.total_scanned,
                       last_processed_index |->
                           IF idx # {} THEN SetMax(idx)
                           ELSE progress_data.last_processed_index]
                /\ ledger_pc' = "save_open"
                /\ save_from' = progress_file
                /\ save_to' = CompleteFile(progress_data')
    /\ UNCHANGED <<catalog_data, progress_file, resume_result, batch_files, ext_vars, orch_vars, exec_vars, tool_vars>>

----------------------------------------------------------------------------
\* Specifications of the ledger.

NoCrash == [pc |-> "None", batch_number |-> 0, item_index |-> 0]
NoFileName == <<0, 0, 0>>

\* No run_batch_script call has just been made.
NoRun == [items |-> "None", clean |-> FALSE, alive |-> FALSE]

\* The orchestrator is not running.
OrchestratorIdle ==
    /\ orch_pc = "None"
    /\ orch_args = [total_videos |-> 0, batch_size |-> 0,
                    start_given |-> FALSE, start_value |-> 0]
    /\ start_index = 0
    /\ target_end_index = 0
    /\ processed_videos = 0
    /\ orch_result = "None"
    /\ history = <<>>
    /\ batch_processes = 0
    /\ last_run = NoRun

\* No get_transcript call has been made and no execution is recorded.
NoOutcome == [video_id |-> <<>>, transcript_available |-> FALSE,
              error |-> "None", error_type |-> "None"]

\* No executor object exists.
ExecutorIdle ==
    /\ exec_impl = "None"
    /\ exec_pc = "None"
    /\ exec_video = <<>>
    /\ attempt = 0
    /\ exec_log = <<>>
    /\ outcome = NoOutcome
    /\ ip_blocked = FALSE
    /\ request_count = 0
    /\ use_proxies = FALSE
    /\ proxy_list = <<>>
    /\ proxy_next = 0
    /\ current_proxy = "None"
    /\ failed_proxies = {}
    /\ exec_calls = 0

\* No _rate_limited_request is running and no delay was computed.
NoDelay == [attempt |-> 0, jitter |-> 0, num |-> 0, den |-> 1]

BackoffIdle ==
    /\ backoff_pc = "None"
    /\ backoff_attempt = 0
    /\ backoff_delays = <<>>
    /\ backoff_call = NoDelay

\* merge_batch_files has not run.
NoMerge ==
    [returned |-> "None", source_files |-> 0, total_videos |-> 0,
     index_min |-> 0, index_max |-> 0, next_resume_index |-> 0,
     duplicates_removed |-> 0, missing_indices |-> <<>>, videos |-> <<>>]

MergeIdle ==
    /\ merge_pc = "None"
    /\ merge_glob = <<>>
    /\ merged_data = NoMerge

\* No parallel script has been created.
ShardsIdle ==
    /\ par_pc = "None"
    /\ par_args = [target_videos |-> 0, start_index |-> 0, create_parallel |-> 0,
                   videos_per_batch |-> 0]
    /\ scripts_created = <<>>
    /\ shard_run = <<>>
    /\ shard_now = 0
    /\ shard_writes = {}

\* _get_next_proxy has not been called on its own.
NoProxyCall ==
    [op |-> "None", returned |-> "None", cursor |-> 0, failed_before |-> {},
     failed_after |-> {}]

ProxyIdle ==
    /\ proxy_call = NoProxyCall
    /\ proxy_calls = 0

\* switch_vpn_location has not been called.
NoSelection == [selected |-> FALSE, before |-> <<>>, location |-> "None"]

VpnIdle ==
    /\ current_location = "None"
    /\ locations_used = <<>>
    /\ vpn_selected = NoSelection
    /\ vpn_switches = 0

SelectIdle == ProxyIdle /\ VpnIdle

\* None of the stand-alone tools is running.
ToolsIdle ==
    /\ BackoffIdle
    /\ MergeIdle
    /\ ShardsIdle
    /\ SelectIdle

\* The batch runner is not running.
ExtractorIdle ==
    /\ ext_pc = "None"
    /\ ext_args = [start_index |-> 0, target_videos |-> 0, videos_per_batch |-> 0]
    /\ input_videos = <<>>
    /\ batches = <<>>
    /\ batch_number = 0
    /\ batch_filename = NoFileName
    /\ item_index = 0
    /\ results = <<>>
    /\ run_files = <<>>
    /\ clock = 0
    /\ database = <<>>
    /\ stdout = <<>>
    /\ exit_code = 0
    /\ crash_at = NoCrash
    /\ at_batch_start = [batch_files |-> {}, database |-> <<>>,
                         scan_resume |-> 0, status_next |-> 0]

\* A batch file as process_batch writes it: batch_metadata and the videos with
\* their transcript results.
Successes(videos) == {i \in 1..Len(videos) : videos[i].transcript_available}

BatchFile(name, videos) ==
    [name |-> name, state |-> "complete", videos |-> videos,
     success_count |-> Cardinality(Successes(videos))]

\* The error of the result get_transcript returns when every fetch of a video
\* has failed.
FailedAfterRetries == "Failed after retries"

\* A video of a batch file with what the file holds of its transcript_result.
Video(video_id, available) ==
    [video_id |-> video_id, transcript_available |-> available,
     error |-> IF available THEN "None" ELSE FailedAfterRetries]

\* Batch files earlier runs left in data/processed: a batch, the retry of its
\* range by a later run, and a file whose write was cut short.
EarlierBatchFiles ==
    {BatchFile(<<1, 1, 1>>, <<Video(VideoIdPool[1], TRUE)>>),
     BatchFile(<<1, 1, 2>>, <<Video(VideoIdPool[2], FALSE),
                              Video(VideoIdPool[1], TRUE)>>),
     [name |-> <<1, 1, 3>>, state |-> "empty", videos |-> <<>>,
      success_count |-> 0]}

\* The catalog lists the videos newest first.
CatalogOf(n) == [i \in 1..n |-> VideoIdPool[n + 1 - i]]

InitLedger ==
    /\ catalog_data = CatalogOf(NumVideos)
    /\ progress_data = FreshProgress
    /\ progress_file = AbsentFile
    /\ ledger_pc = "idle"
    /\ ledger_call = NoCall
    /\ save_from = AbsentFile
    /\ save_to = AbsentFile
    /\ calls = 0
    /\ resume_result = 0
    /\ batch_files \in SUBSET EarlierBatchFiles
    /\ ExtractorIdle
    /\ OrchestratorIdle
    /\ ExecutorIdle
    /\ ToolsIdle

NextLedger ==
    \/ MarkVideoProcessed
    \/ ScanExistingBatches
    \/ SaveOpen
    \/ SaveFlush
    \/ SaveClose
    \/ LedgerCrash
    \/ LoadProgress

SpecLedger == InitLedger /\ [][NextLedger]_vars

\* The ledger whose records sit exactly at the positions P.
LedgerAt(P) ==
    [processed_videos |->
        [v \in {VideoIdPool[p + 1] : p \in P} |->
            [catalog_index |-> CHOOSE p \in P : VideoIdPool[p + 1] = v,
             batch_file |-> "batch_1.json",
             status |-> "success"]],
     videos_processed |-> Cardinality(P),
     last_processed_index |-> IF P = {} THEN -1 ELSE SetMax(P)]

InitResume ==
    /\ catalog_data = CatalogOf(MaxResumePos + 1)
    /\ \E P \in SUBSET (0..MaxResumePos) :
          /\ progress_data = LedgerAt(P)
          /\ progress_file = CompleteFile(LedgerAt(P))
          /\ save_from = CompleteFile(LedgerAt(P))
          /\ save_to = CompleteFile(LedgerAt(P))
    /\ ledger_pc = "idle"
    /\ ledger_call = NoCall
    /\ calls = 0
    /\ resume_result = 0
    /\ batch_files = {}
    /\ ExtractorIdle
    /\ OrchestratorIdle
    /\ ExecutorIdle
    /\ ToolsIdle

NextResume == GetNextResumeIndex

SpecResume == InitResume /\ [][NextResume]_vars

----------------------------------------------------------------------------
\* transcript_extractor_human_batch.py: one run of the script (main ->
\* process_human_like_batches -> process_batch per batch -> append_to_database).

ExtCatalogLen == 5      \* videos in --input-file
MaxStart == 1           \* --start-index is drawn from 0..MaxStart
MaxTarget == 4          \* --target-videos is drawn from 0..MaxTarget
MaxBatch == 2           \* --videos-per-batch is drawn from 0..MaxBatch


\* The duration filter of process_human_like_batches.
RECURSIVE FilterByDuration(_)
FilterByDuration(videos) ==
    IF videos = <<>> THEN <<>>
    ELSE IF Head(videos).in_range
    THEN <<Head(videos).video_id>> \o FilterByDuration(Tail(videos))
    ELSE FilterByDuration(Tail(videos))

\* The Python slice seq[lo:hi] for 0 <= lo.
Slice(seq, lo, hi) ==
    IF Min2(hi, Len(seq)) <= lo THEN <<>>
    ELSE SubSeq(seq, lo + 1, Min2(hi, Len(seq)))

\* for i in range(0, len(target_videos_list), videos_per_batch), for a
\* positive videos_per_batch.
RECURSIVE SplitIntoBatches(_, _)
SplitIntoBatches(target_videos_list, videos_per_batch) ==
    IF target_videos_list = <<>> THEN <<>>
    ELSE <<Slice(target_videos_list, 0, videos_per_batch)>>
         \o SplitIntoBatches(
               Slice(target_videos_list, videos_per_batch, Len(target_videos_list)),
               videos_per_batch)

\* What a scan of the batch files on disk makes of the loaded ledger, and the
\* resume index it then reports.
ScannedLedger(files) ==
    ScanFiles([pv |-> progress_data.processed_videos, total_scanned |-> 0],
              SortedFiles(files), 1).pv

ScanResumeIndex(files) ==
    get_next_resume_index([processed_videos |-> ScannedLedger(files)])

\* show_processing_status: next_index = processed_count.
StatusNextIndex(db) == Len(db)

DiskSnapshot ==
    [batch_files |-> batch_files,
     database |-> database,
     scan_resume |-> ScanResumeIndex(batch_files),
     status_next |-> StatusNextIndex(database)]

\* The lines main prints on stdout; the logger writes to stderr.
AppendedLines ==
    <<"BATCH COMPLETE!", "This batch: Index", "Total processed", "Next run: --start-index">>
NothingProcessedLines == <<"No videos were processed successfully">>
ClosingLines == <<"Human-like batch processing completed!", "Created batch files">>

\* process_human_like_batches up to the first batch.  range() with a step of 0
\* raises ValueError; with no batch at all the final summary subtracts
\* batch_stats['start_time'], still None, and raises TypeError.
ProcessHumanLikeBatches ==
    /\ ext_pc = "start"
    /\ LET filtered_videos == FilterByDuration(input_videos)
           target_videos_list ==
               Slice(filtered_videos, ext_args.start_index,
                     ext_args.start_index + ext_args.target_videos)
       IN  IF ext_args.videos_per_batch = 0 \/ target_videos_list = <<>>
           THEN /\ ext_pc' = "error"
                /\ exit_code' = 1
                /\ UNCHANGED <<batches, batch_number, batch_filename, item_index,
                               at_batch_start>>
           ELSE /\ batches' = SplitIntoBatches(target_videos_list,
                                               ext_args.videos_per_batch)
                /\ batch_number' = 1
                /\ batch_filename' = <<1, Len(batches'), clock>>
                /\ item_index' = 1
                /\ at_batch_start' = DiskSnapshot
                /\ ext_pc' = "item"
                /\ UNCHANGED exit_code
    /\ UNCHANGED <<ledger_vars, orch_vars, exec_vars, tool_vars, batch_files, ext_args, input_videos, results,
                   run_files, clock, database, stdout, crash_at>>

\* A faulty loop body: the results so far are written to the batch file after
\* every item.
ProcessItemCheckpointing ==
    /\ ext_pc = "item"
    /\ \E available \in BOOLEAN :
          results' = Append(results,
                        Video(batches[batch_number][item_index], available))
    /\ batch_files' = {f \in batch_files : f.name # batch_filename}
                         \cup {BatchFile(batch_filename, results')}
    /\ clock' = clock + 1
    /\ IF item_index < Len(batches[batch_number])
       THEN item_index' = item_index + 1 /\ UNCHANGED ext_pc
       ELSE ext_pc' = "write_open" /\ UNCHANGED item_index
    /\ UNCHANGED <<ledger_vars, orch_vars, exec_vars, tool_vars, ext_args, input_videos, batches,
                   batch_number, batch_filename, run_files, database, stdout,
                   exit_code, crash_at, at_batch_start>>

\* A faulty loop body: the loop is left at the first item without a transcript.
ProcessItemAbortingOnFailure ==
    /\ ext_pc = "item"
    /\ \E available \in BOOLEAN :
          /\ results' = Append(results,
                           Video(batches[batch_number][item_index], available))
          /\ IF available /\ item_index < Len(batches[batch_number])
             THEN item_index' = item_index + 1 /\ UNCHANGED ext_pc
             ELSE ext_pc' = "write_open" /\ UNCHANGED item_index
    /\ clock' = clock + 1
    /\ UNCHANGED <<ledger_vars, orch_vars, exec_vars, tool_vars, batch_files, ext_args, input_videos, batches,
                   batch_number, batch_filename, run_files, database, stdout,
                   exit_code, crash_at, at_batch_start>>

\* process_batch, one turn of `for i, video in enumerate(videos)`:
\* get_transcript answers with or without a transcript, the result is appended
\* and the loop goes on either way.
ProcessItem ==
    /\ ext_pc = "item"
    /\ \E available \in BOOLEAN :
          results' = Append(results,
                        Video(batches[batch_number][item_index], available))
    /\ clock' = clock + 1
    /\ IF item_index < Len(batches[batch_number])
       THEN item_index' = item_index + 1 /\ UNCHANGED ext_pc
       ELSE ext_pc' = "write_open" /\ UNCHANGED item_index
    /\ UNCHANGED <<ledger_vars, orch_vars, exec_vars, tool_vars, batch_files, ext_args, input_videos, batches,
                   batch_number, batch_filename, run_files, database, stdout,
                   exit_code, crash_at, at_batch_start>>

\* process_batch, open(output_file, 'w'): the file exists and is empty.
BatchWriteOpen ==
    /\ ext_pc = "write_open"
    /\ batch_files' = {f \in batch_files : f.name # batch_filename}
                         \cup {[name |-> batch_filename, state |-> "empty",
                                videos |-> <<>>, success_count |-> 0]}
    /\ ext_pc' = "write_dump"
    /\ UNCHANGED <<ledger_vars, orch_vars, exec_vars, tool_vars, ext_args, input_videos, batches, batch_number,
                   batch_filename, item_index, results, run_files, clock,
                   database, stdout, exit_code, crash_at, at_batch_start>>

\* process_batch, json.dump and return, whatever success_count is; then
\* process_human_like_batches takes the next batch after wait_between_batches,
\* or returns the list of batch files.
BatchWriteClose ==
    /\ ext_pc = "write_dump"
    /\ batch_files' = {f \in batch_files : f.name # batch_filename}
                         \cup {BatchFile(batch_filename, results)}
    /\ run_files' = Append(run_files, batch_filename)
    /\ results' = <<>>
    /\ IF batch_number < Len(batches)
       THEN /\ batch_number' = batch_number + 1
            /\ clock' = clock + 1
            /\ batch_filename' = <<batch_number', Len(batches), clock'>>
            /\ item_index' = 1
            /\ at_batch_start' =
                  [batch_files |-> batch_files',
                   database |-> database,
                   scan_resume |-> ScanResumeIndex(batch_files'),
                   status_next |-> StatusNextIndex(database)]
            /\ ext_pc' = "item"
       ELSE /\ ext_pc' = "collect"
            /\ UNCHANGED <<batch_number, clock, batch_filename, item_index,
                           at_batch_start>>
    /\ UNCHANGED <<ledger_vars, orch_vars, exec_vars, tool_vars, ext_args, input_videos, batches, database,
                   stdout, exit_code, crash_at>>

\* all_processed_videos of main: the videos of every batch file of this run,
\* the failed ones included.
RECURSIVE AllProcessedVideos(_, _)
AllProcessedVideos(names, files) ==
    IF names = <<>> THEN <<>>
    ELSE LET f == CHOOSE g \in files : g.name = Head(names)
         IN  f.videos \o AllProcessedVideos(Tail(names), files)

\* main after process_human_like_batches: read the batch files back, append
\* their videos to the database and print the summary.
CollectAndAppend ==
    /\ ext_pc = "collect"
    /\ LET all_processed_videos == AllProcessedVideos(run_files, batch_files)
       IN  IF all_processed_videos # <<>>
           THEN /\ database' = database \o all_processed_videos
                /\ stdout' = stdout \o AppendedLines \o ClosingLines
           ELSE /\ UNCHANGED database
                /\ stdout' = stdout \o NothingProcessedLines \o ClosingLines
    /\ exit_code' = 0
    /\ ext_pc' = "done"
    /\ UNCHANGED <<ledger_vars, orch_vars, exec_vars, tool_vars, batch_files, ext_args, input_videos, batches,
                   batch_number, batch_filename, item_index, results, run_files,
                   clock, crash_at, at_batch_start>>

\* The process dies while it works on a batch or on the database.
ExtractorCrash ==
    /\ ext_pc \in {"item", "write_open", "write_dump", "collect"}
    /\ crash_at' = [pc |-> ext_pc, batch_number |-> batch_number,
                    item_index |-> item_index]
    /\ ext_pc' = "crashed"
    /\ UNCHANGED <<ledger_vars, orch_vars, exec_vars, tool_vars, batch_files, ext_args, input_videos, batches,
                   batch_number, batch_filename, item_index, results, run_files,
                   clock, database, stdout, exit_code, at_batch_start>>

\* The input catalog: every video but the second is in the duration range.
InputCatalog(n) ==
    [i \in 1..n |-> [video_id |-> VideoIdPool[i], in_range |-> i # 2]]

InitExtractor ==
    /\ catalog_data = [i \in 1..ExtCatalogLen |-> VideoIdPool[i]]
    /\ progress_data = FreshProgress
    /\ progress_file = AbsentFile
    /\ ledger_pc = "None"
    /\ ledger_call = NoCall
    /\ save_from = AbsentFile
    /\ save_to = AbsentFile
    /\ calls = 0
    /\ resume_result = 0
    /\ batch_files = {}
    /\ ext_pc = "start"
    /\ ext_args \in [start_index : 0..MaxStart, target_videos : 0..MaxTarget,
                     videos_per_batch : 0..MaxBatch]
    /\ input_videos = InputCatalog(ExtCatalogLen)
    /\ batches = <<>>
    /\ batch_number = 0
    /\ batch_filename = NoFileName
    /\ item_index = 0
    /\ results = <<>>
    /\ run_files = <<>>
    /\ clock = 1
    /\ database = <<>>
    /\ stdout = <<>>
    /\ exit_code = 0
    /\ crash_at = NoCrash
    /\ at_batch_start = [batch_files |-> {}, database |-> <<>>,
                         scan_resume |-> 0, status_next |-> 0]
    /\ OrchestratorIdle
    /\ ExecutorIdle
    /\ ToolsIdle

NextExtractor ==
    \/ ProcessHumanLikeBatches
    \/ ProcessItem
    \/ BatchWriteOpen
    \/ BatchWriteClose
    \/ CollectAndAppend
    \/ ExtractorCrash

SpecExtractor == InitExtractor /\ [][NextExtractor]_vars

----------------------------------------------------------------------------
\* vpn_batch_orchestrator.py: VPNBatchOrchestrator.

MaxTotal == 3           \* --total-videos is drawn from 0..MaxTotal
MaxFailures == 2        \* failed batch attempts per behaviour

\* `"Successfully processed video" in output`: the lines that hold the text.
SuccessLines == {"Successfully processed video"}
ContainsMarker(line) == line \in SuccessLines

\* run_batch_script once the subprocess has ended: success_count counts the
\* stdout lines with the marker; an exception around Popen returns False.
run_batch_script(run) ==
    IF run.raised THEN FALSE
    ELSE /\ run.return_code = 0
         /\ Cardinality({i \in 1..Len(run.stdout) : ContainsMarker(run.stdout[i])}) > 0

\* How the items of a batch ended inside the subprocess: at least one with a
\* transcript, all with an error that is not retried, or some with their
\* retries used up and none with a transcript.
ItemOutcomes == {"some_success", "all_terminal", "some_exhausted"}

\* What a batch subprocess can do, seen from run_batch_script: a statement of
\* the try block raises, or the process ends (by itself or killed after the
\* timeout, then process.wait()) with a return code and some lines on stdout.
\* Popen itself may raise, and then there is no process; readline (the pipes
\* are opened in text mode) and print may raise while the process runs, and
\* the except clause returns False without kill or wait: alive says whether
\* the process is still running when run_batch_script returns.  The command
\* runs whatever script is installed as
\* scripts/transcript_extractor_human_batch.py, a marker line standing for an
\* item with a transcript; the stdout of the script of this repository is the
\* variable stdout of SpecExtractor.
SubprocessRuns ==
    {run \in [raised : BOOLEAN, alive : BOOLEAN, return_code : {0, 1},
              items : ItemOutcomes,
              stdout : {<<>>, AppendedLines \o ClosingLines,
                        <<"Successfully processed video">>,
                        <<"Successfully processed video", "Created batch files",
                          "Successfully processed video">>}] :
        /\ run.alive => run.raised
        /\ (\E i \in 1..Len(run.stdout) : ContainsMarker(run.stdout[i]))
               => run.items = "some_success"}

\* The runs of the script of this repository on a batch in which an item gets
\* its transcript: main prints the lines of the appended batch and the closing
\* lines and ends with exit code 0.
ScriptRuns ==
    {run \in SubprocessRuns :
        /\ ~run.raised
        /\ run.return_code = 0
        /\ run.items = "some_success"
        /\ run.stdout = AppendedLines \o ClosingLines}

BatchEvent(batch_start_index, batch_size, success) ==
    [type |-> "batch", start |-> batch_start_index, size |-> batch_size,
     ok |-> success]
SwitchEvent(ok) == [type |-> "switch", start |-> 0, size |-> 0, ok |-> ok]

\* What is kept of a run once run_batch_script has returned: how its items
\* ended, whether it ended by itself with exit code 0, and whether its process
\* is still running.
RunSummary(run) ==
    [items |-> run.items, clean |-> ~run.raised /\ run.return_code = 0,
     alive |-> run.alive]

\* The log of the run: every event, or none when the run is followed without
\* its log.
Logged(h, event, logged) == IF logged THEN Append(h, event) ELSE h

FailedBatches(h) == {i \in 1..Len(h) : h[i].type = "batch" /\ ~h[i].ok}

\* main: parse_args (--start-index defaults to 0) and the first lines of
\* run_automated_batches.
RunAutomatedBatches ==
    /\ orch_pc = "start"
    /\ start_index' = IF orch_args.start_given THEN orch_args.start_value ELSE 0
    /\ processed_videos' = start_index'
    /\ target_end_index' = start_index' + orch_args.total_videos
    /\ orch_pc' = "loop"
    /\ UNCHANGED <<ledger_vars, batch_files, ext_vars, exec_vars, tool_vars, orch_args, orch_result,
                   history, batch_processes, last_run>>

\* A faulty batch size: not clamped to what is left of the total.
BatchSizeUnclamped(videos_per_batch, remaining) == videos_per_batch

\* batch_size = min(videos_per_batch, target_end_index - self.processed_videos)
BatchSize(videos_per_batch, remaining) == Min2(videos_per_batch, remaining)

\* A faulty update: a failed batch is counted as done.
ProcessedAfterSkippingFailed(processed, batch_size, success) ==
    processed + batch_size

\* if success: self.processed_videos += batch_size; else: left as it is.
ProcessedAfter(processed, batch_size, success) ==
    IF success THEN processed + batch_size ELSE processed

\* A faulty loop condition: one more turn when the total is reached.
LoopGoesOnInclusive(processed, target_end) == processed <= target_end

\* while self.processed_videos < target_end_index
LoopGoesOn(processed, target_end) == processed < target_end

\* A faulty choice: the VPN is switched after every successful batch, the last
\* one included.
AfterBatchAlwaysSwitching(success, processed, target_end) ==
    IF ~success THEN "switch_after_failure" ELSE "switch_after_success"

\* What follows run_batch_script in the loop body: after a success the VPN is
\* switched `if self.processed_videos < target_end_index`, after a failure
\* always.
AfterBatch(success, processed, target_end) ==
    IF ~success THEN "switch_after_failure"
    ELSE IF processed < target_end THEN "switch_after_success"
    ELSE "loop"

\* One turn of the while loop up to the VPN switch.  The logging of the batch
\* number divides by videos_per_batch; with --batch-size 0 that raises
\* ZeroDivisionError, which main reports as an unexpected error.
BatchTurn(runs, logged) ==
    /\ orch_pc = "loop"
    /\ LoopGoesOn(processed_videos, target_end_index)
    /\ IF orch_args.batch_size = 0
       THEN /\ orch_pc' = "error"
            /\ UNCHANGED <<processed_videos, history, batch_processes, last_run>>
       ELSE \E run \in runs :
               LET batch_start_index == processed_videos
                   batch_size == BatchSize(orch_args.batch_size,
                                           target_end_index - processed_videos)
                   success == run_batch_script(run)
               IN  /\ logged =>
                         success \/ Cardinality(FailedBatches(history)) < MaxFailures
                   /\ history' = Logged(history,
                                    BatchEvent(batch_start_index, batch_size,
                                               success), logged)
                   /\ last_run' = RunSummary(run)
                   /\ batch_processes' =
                         IF run.alive THEN batch_processes + 1 ELSE batch_processes
                   /\ processed_videos' =
                         ProcessedAfter(processed_videos, batch_size, success)
                   /\ orch_pc' = AfterBatch(success, processed_videos',
                                            target_end_index)
    /\ UNCHANGED <<ledger_vars, batch_files, ext_vars, exec_vars, tool_vars, orch_args, start_index,
                   target_end_index, orch_result>>

BatchAttempt == BatchTurn(SubprocessRuns, TRUE)

\* One turn of the loop when the subprocess is the script of this repository
\* and an item of the batch gets its transcript.
BatchAttemptOfScript == BatchTurn(ScriptRuns, FALSE)

\* A subprocess that run_batch_script left running ends by itself.
SubprocessExits ==
    /\ orch_pc \in {"loop", "switch_after_success", "switch_after_failure",
                    "returned", "interrupted"}
    /\ batch_processes > 0
    /\ batch_processes' = batch_processes - 1
    /\ UNCHANGED <<ledger_vars, batch_files, ext_vars, exec_vars, tool_vars, orch_pc, orch_args,
                   start_index, target_end_index, processed_videos, orch_result,
                   history, last_run>>

\* switch_vpn_location after a batch: it succeeds, or every method fails and
\* run_automated_batches returns False.
Switch(switch_results, logged) ==
    /\ orch_pc \in {"switch_after_success", "switch_after_failure"}
    /\ \E ok \in switch_results :
          /\ history' = Logged(history, SwitchEvent(ok), logged)
          /\ IF ok
             THEN orch_pc' = "loop" /\ UNCHANGED orch_result
             ELSE orch_pc' = "returned" /\ orch_result' = "False"
    /\ last_run' = NoRun
    /\ UNCHANGED <<ledger_vars, batch_files, ext_vars, exec_vars, tool_vars, orch_args, start_index,
                   target_end_index, processed_videos, batch_processes>>

SwitchVpnLocation == Switch(BOOLEAN, TRUE)

\* switch_vpn_location when one of its methods works every time.
SwitchVpnLocationSucceeds == Switch({TRUE}, FALSE)

\* main's except clauses: a KeyboardInterrupt, or an exception that leaves
\* run_automated_batches (out of switch_vpn_location, say), ends the run at
\* any point and main prints `Resume with: --start-index
\* {orchestrator.processed_videos}`.  Inside run_batch_script a
\* KeyboardInterrupt passes `except Exception`: self.processed_videos is what
\* it was before the batch, and the subprocess may go on running.
Interrupt ==
    /\ orch_pc \in {"start", "loop", "switch_after_success", "switch_after_failure"}
    /\ orch_pc' = "interrupted"
    /\ \E in_batch \in BOOLEAN :
          batch_processes' =
             IF /\ in_batch
                /\ orch_pc = "loop"
                /\ LoopGoesOn(processed_videos, target_end_index)
                /\ orch_args.batch_size > 0
             THEN batch_processes + 1
             ELSE batch_processes
    /\ UNCHANGED <<ledger_vars, batch_files, ext_vars, exec_vars, tool_vars, orch_args, start_index,
                   target_end_index, processed_videos, orch_result, history,
                   last_run>>

\* The while condition fails: "ALL BATCHES COMPLETED!", return True.
AllBatchesCompleted ==
    /\ orch_pc = "loop"
    /\ ~LoopGoesOn(processed_videos, target_end_index)
    /\ orch_result' = "True"
    /\ orch_pc' = "returned"
    /\ last_run' = NoRun
    /\ UNCHANGED <<ledger_vars, batch_files, ext_vars, exec_vars, tool_vars, orch_args, start_index,
                   target_end_index, processed_videos, history, batch_processes>>

\* The ledger file the orchestrator finds on disk: left by earlier runs, with
\* records at any positions, not there yet, or cut short by a save that died.
LedgerFilesOnDisk ==
    {IF P = {} THEN AbsentFile ELSE CompleteFile(LedgerAt(P)) : P \in SUBSET (0..MaxPos)}
        \cup {EmptyFile, PartialFile}

InitOrchestrator ==
    /\ catalog_data = CatalogOf(MaxPos + 1)
    /\ progress_file \in LedgerFilesOnDisk
    /\ save_from = progress_file
    /\ save_to = progress_file
    /\ progress_data = FreshProgress
    /\ ledger_pc = "None"
    /\ ledger_call = NoCall
    /\ calls = 0
    /\ resume_result = 0
    /\ batch_files = {}
    /\ ExtractorIdle
    /\ ExecutorIdle
    /\ ToolsIdle
    /\ orch_pc = "start"
    /\ orch_args \in [total_videos : 0..MaxTotal, batch_size : 0..MaxBatch,
                      start_given : BOOLEAN, start_value : 0..MaxStart]
    /\ ~orch_args.start_given => orch_args.start_value = 0
    /\ start_index = 0
    /\ target_end_index = 0
    /\ processed_videos = 0
    /\ orch_result = "None"
    /\ history = <<>>
    /\ batch_processes = 0
    /\ last_run = NoRun

NextOrchestrator ==
    \/ RunAutomatedBatches
    \/ BatchAttempt
    \/ SubprocessExits
    \/ SwitchVpnLocation
    \/ AllBatchesCompleted

SpecOrchestrator == InitOrchestrator /\ [][NextOrchestrator]_vars

\* The orchestrator when the run can be stopped at any point.
NextInterrupted ==
    \/ RunAutomatedBatches
    \/ BatchAttempt
    \/ SubprocessExits
    \/ SwitchVpnLocation
    \/ AllBatchesCompleted
    \/ Interrupt

SpecInterrupted == InitOrchestrator /\ [][NextInterrupted]_vars

\* The orchestrator with the script of this repository as its subprocess, no
\* interrupt, every VPN switch succeeding and an item with a transcript in
\* every batch attempt; the program keeps running.
NextPipeline ==
    \/ RunAutomatedBatches
    \/ BatchAttemptOfScript
    \/ SwitchVpnLocationSucceeds
    \/ AllBatchesCompleted

SpecPipeline ==
    InitOrchestrator /\ [][NextPipeline]_vars /\ WF_vars(NextPipeline)

----------------------------------------------------------------------------
\* The request executor: get_transcript of HumanLikeBatchExtractor
\* (transcript_extractor_human_batch.py) and get_transcript with
\* _rate_limited_request of TranscriptExtractor (transcript_extractor.py).

MaxExecCalls == 1       \* get_transcript calls per behaviour
MaxProxies == 2         \* the largest proxy pool

\* self.max_retries of the two classes.
BatchMaxRetries == 3
ExtractorMaxRetries == 5
max_retries(impl) ==
    IF impl = "human_batch" THEN BatchMaxRetries ELSE ExtractorMaxRetries

\* A video id is a sequence of characters, each of one of three classes: "w"
\* is a character of [a-zA-Z0-9_-], "nl" a newline, "x" any other character.
IdLength == 11
Chars(n, c) == [i \in 1..n |-> c]

SampleIds ==
    {Chars(IdLength, "w"),
     Chars(IdLength - 1, "w"),
     Chars(IdLength + 1, "w"),
     Chars(IdLength - 1, "w") \o <<"x">>,
     Chars(IdLength, "w") \o <<"nl">>,
     <<>>}

\* re.match(r'^[a-zA-Z0-9_-]{11}$', video_id): eleven characters of the class,
\* then the end of the string; `$` also matches before a final newline.
_validate_video_id(video_id) ==
    /\ Len(video_id) \in {IdLength, IdLength + 1}
    /\ \A i \in 1..IdLength : video_id[i] = "w"
    /\ Len(video_id) = IdLength + 1 => video_id[IdLength + 1] = "nl"

\* str(e).lower() of the exceptions a fetch raises, and the phrases of the
\* error handlers that each of them contains.
BlockedMessage == "youtube is blocking requests from your ip"
RateLimitMessage == "429 too many requests"
TransientMessage == "connection timeout"
DisabledMessage == "subtitles are disabled for this video"
ErrorMessages == {BlockedMessage, RateLimitMessage, TransientMessage, DisabledMessage}

\* The messages the executor makes up itself.
ExhaustedMessage == "Failed after 5 attempts"
InvalidIdMessage == "Invalid video ID format"

PhrasesIn(error_msg) ==
    CASE error_msg = BlockedMessage ->
            {"blocking requests from your ip", "blocking requests"}
      [] error_msg = RateLimitMessage -> {"429", "too many requests"}
      [] error_msg = TransientMessage -> {"connection", "timeout"}
      [] error_msg = DisabledMessage -> {"disabled"}
      [] OTHER -> {}

\* any(phrase in error_msg for phrase in phrases)
AnyPhrase(error_msg, phrases) == PhrasesIn(error_msg) \cap phrases # {}

\* The except branch of get_transcript of HumanLikeBatchExtractor that an
\* error message takes.
BatchBlockedPhrases ==
    {"ipblocked", "ip blocked", "blocking requests", "requestblocked",
     "request blocked"}
BatchTemporaryPhrases == {"timeout", "connection", "temporary", "503", "502"}

\* A faulty classification: every error that is not a block is retried.
BatchErrorBranchRetryingAll(error_msg) ==
    IF AnyPhrase(error_msg, BatchBlockedPhrases) THEN "blocked" ELSE "temporary"

BatchErrorBranch(error_msg) ==
    IF AnyPhrase(error_msg, BatchBlockedPhrases) THEN "blocked"
    ELSE IF AnyPhrase(error_msg, BatchTemporaryPhrases) THEN "temporary"
    ELSE "permanent"

\* The except branch of _rate_limited_request that an error message takes.
ExtractorBlockedPhrases ==
    {"ipblocked", "ip blocked", "blocking requests from your ip",
     "requestblocked", "request blocked"}
ExtractorRateLimitPhrases == {"rate limit", "too many requests", "429", "quota exceeded"}
ExtractorTemporaryPhrases ==
    {"timeout", "connection", "temporary", "503", "502", "proxy"}

ExtractorErrorBranch(error_msg) ==
    IF AnyPhrase(error_msg, ExtractorBlockedPhrases) THEN "blocked"
    ELSE IF AnyPhrase(error_msg, ExtractorRateLimitPhrases) THEN "rate_limited"
    ELSE IF AnyPhrase(error_msg, ExtractorTemporaryPhrases) THEN "temporary"
    ELSE "permanent"

\* error_type of the failure result of TranscriptExtractor.get_transcript.
ErrorType(error_msg) ==
    IF AnyPhrase(error_msg, {"not available", "disabled"}) THEN "transcript_disabled"
    ELSE IF AnyPhrase(error_msg, {"not found", "404"}) THEN "video_not_found"
    ELSE IF AnyPhrase(error_msg, {"rate limit", "429"}) THEN "rate_limited"
    ELSE IF AnyPhrase(error_msg, {"invalid"}) THEN "invalid_format"
    ELSE "unknown"

\* The class of a fetch failure: blocked, rate-limited (too many requests),
\* transient (timeout, connection) or terminal (the video has no transcript).
FailureClass(error_msg) ==
    IF error_msg = BlockedMessage THEN "Blocked"
    ELSE IF error_msg = RateLimitMessage THEN "RateLimited"
    ELSE IF error_msg = TransientMessage THEN "Transient"
    ELSE "Terminal"

\* The proxy pool: proxy_list and cycle(proxy_list).
ProxyPool == <<"proxy1", "proxy2", "proxy3", "proxy4">>
ProxyLists == {SubSeq(ProxyPool, 1, n) : n \in 0..MaxProxies}

CycleAfter(pos, list) == (pos % Len(list)) + 1

\* _get_next_proxy, the loop `while attempts < len(self.proxy_list)` and what
\* follows it: the first proxy of the cycle that has not failed; when all have
\* failed the failed set is cleared and the next one of the cycle is taken.
RECURSIVE NextProxyFrom(_, _, _, _)
NextProxyFrom(attempts, pos, list, failed) ==
    IF attempts < Len(list)
    THEN IF list[pos] \notin failed
         THEN [proxy |-> list[pos], next |-> CycleAfter(pos, list), failed |-> failed]
         ELSE NextProxyFrom(attempts + 1, CycleAfter(pos, list), list, failed)
    ELSE [proxy |-> list[pos], next |-> CycleAfter(pos, list), failed |-> {}]

\* A faulty selection: the next proxy of the cycle, failed or not.
NextProxyIgnoringFailed(use, list, pos, failed) ==
    IF ~use \/ list = <<>>
    THEN [proxy |-> "None", next |-> pos, failed |-> failed]
    ELSE [proxy |-> list[pos], next |-> CycleAfter(pos, list), failed |-> failed]

_get_next_proxy(use, list, pos, failed) ==
    IF ~use \/ list = <<>>
    THEN [proxy |-> "None", next |-> pos, failed |-> failed]
    ELSE NextProxyFrom(0, pos, list, failed)

\* The entries of exec_log.
DelayEvent(kind, n) == [ev |-> kind, proxy |-> "None", result |-> "None", attempt |-> n]
FetchEvent(proxy, result, n) == [ev |-> "fetch", proxy |-> proxy, result |-> result, attempt |-> n]

Fetches(log) == {i \in 1..Len(log) : log[i].ev = "fetch"}
Delays(log) == {i \in 1..Len(log) : log[i].ev # "fetch"}

\* The results of get_transcript.
SuccessResult(video_id) ==
    [video_id |-> video_id, transcript_available |-> TRUE,
     error |-> "None", error_type |-> "None"]
FailureResult(video_id, error, error_type) ==
    [video_id |-> video_id, transcript_available |-> FALSE,
     error |-> error, error_type |-> error_type]

\* _rotate_proxy of HumanLikeBatchExtractor: the next proxy of the pool becomes
\* the current one; when it differs from the old one _setup_proxy_session
\* installs it, and a failure there puts it into failed_proxies.
RotateProxy(cur, pos, failed, setup_ok) ==
    IF ~use_proxies THEN [current |-> cur, next |-> pos, failed |-> failed]
    ELSE LET r == _get_next_proxy(use_proxies, proxy_list, pos, failed)
         IN  [current |-> r.proxy,
              next |-> r.next,
              failed |-> IF r.proxy # cur /\ r.proxy # "None" /\ ~setup_ok
                         THEN r.failed \cup {r.proxy}
                         ELSE r.failed]

\* The proxy handling at the head of an attempt of _rate_limited_request: on a
\* retry, or with no current proxy, the next proxy of the pool is tested by
\* _setup_proxy_session and becomes the current one only if the test passes.
ProxyForAttempt(n, cur, pos, failed, setup_ok) ==
    IF use_proxies /\ (n > 0 \/ cur = "None")
    THEN LET r == _get_next_proxy(use_proxies, proxy_list, pos, failed)
         IN  IF r.proxy = "None"
             THEN [current |-> cur, next |-> r.next, failed |-> r.failed]
             ELSE IF setup_ok
             THEN [current |-> r.proxy, next |-> r.next, failed |-> r.failed]
             ELSE [current |-> cur, next |-> r.next,
                   failed |-> r.failed \cup {r.proxy}]
    ELSE [current |-> cur, next |-> pos, failed |-> failed]

\* The identity a fetch goes out with.
Identity(cur) == IF use_proxies THEN cur ELSE "None"

\* get_transcript is called: the video id is validated before anything else.
StartGetTranscript ==
    /\ exec_pc \in {"idle", "returned"}
    /\ exec_calls < MaxExecCalls
    /\ exec_calls' = exec_calls + 1
    /\ exec_log' = <<>>
    /\ attempt' = 0
    /\ \E video_id \in SampleIds :
          /\ exec_video' = video_id
          /\ IF _validate_video_id(video_id)
             THEN exec_pc' = "attempt" /\ outcome' = NoOutcome
             ELSE /\ exec_pc' = "returned"
                  /\ outcome' = FailureResult(video_id, InvalidIdMessage, "None")
    /\ UNCHANGED <<ledger_vars, batch_files, ext_vars, orch_vars, tool_vars, exec_impl,
                   ip_blocked, request_count, use_proxies, proxy_list,
                   proxy_next, current_proxy, failed_proxies>>

\* process_batch of HumanLikeBatchExtractor before its first item:
\* `if self.use_proxies: self._rotate_proxy()`.
ProcessBatchRotate ==
    /\ exec_impl = "human_batch"
    /\ exec_pc \in {"idle", "returned"}
    /\ use_proxies
    /\ \E setup_ok \in BOOLEAN :
          LET rot == RotateProxy(current_proxy, proxy_next, failed_proxies, setup_ok)
          IN  /\ current_proxy' = rot.current
              /\ proxy_next' = rot.next
              /\ failed_proxies' = rot.failed
    /\ UNCHANGED <<ledger_vars, batch_files, ext_vars, orch_vars, tool_vars, exec_impl,
                   exec_pc, exec_video, attempt, exec_log, outcome, ip_blocked,
                   request_count, use_proxies, proxy_list, exec_calls>>

\* The failure result of get_transcript of HumanLikeBatchExtractor: the one
\* return statement after the loop, reached by break and by the end of the
\* loop alike.
BatchFailure(video_id) == FailureResult(video_id, FailedAfterRetries, "None")

\* The failure result of TranscriptExtractor.get_transcript: the except clause
\* around _rate_limited_request, for the exception it re-raised and for the one
\* it raises after the last attempt.
ExtractorFailure(video_id, error_msg) ==
    FailureResult(video_id, error_msg, ErrorType(error_msg))

\* A faulty loop end: the retries go on without a bound.
NextAttemptNeverGivingUp(failure) ==
    /\ attempt' = attempt + 1
    /\ UNCHANGED <<exec_pc, outcome>>

\* The end of a turn of the retry loop that did not return: the next turn, or,
\* after the last one, the failure result.
NextAttemptOrGiveUp(failure) ==
    IF attempt + 1 < max_retries(exec_impl)
    THEN /\ attempt' = attempt + 1
         /\ UNCHANGED <<exec_pc, outcome>>
    ELSE /\ exec_pc' = "returned"
         /\ outcome' = failure
         /\ UNCHANGED attempt

\* One turn of `for attempt in range(self.max_retries)` of get_transcript of
\* HumanLikeBatchExtractor.  The name e of `except Exception as e` is unbound
\* when the except clause is left, so after the loop `'e' in locals()` is
\* false and the error of the result is 'Failed after retries', after a break
\* as well as after the last retry.
BatchGetTranscriptAttempt ==
    /\ exec_impl = "human_batch"
    /\ exec_pc = "attempt"
    /\ \E result \in {"ok"} \cup ErrorMessages, setup_ok \in BOOLEAN, coin \in BOOLEAN :
          LET delay == DelayEvent(IF attempt = 0 THEN "human_like_delay"
                                  ELSE "retry_delay", attempt)
              fetched == exec_log \o
                         <<delay, FetchEvent(Identity(current_proxy), result, attempt)>>
              branch == BatchErrorBranch(result)
              failed1 == IF current_proxy # "None"
                         THEN failed_proxies \cup {current_proxy}
                         ELSE failed_proxies
              rot == IF branch = "blocked" /\ use_proxies
                     THEN RotateProxy(current_proxy, proxy_next, failed1, setup_ok)
                     ELSE IF branch = "temporary" /\ use_proxies /\ coin
                     THEN RotateProxy(current_proxy, proxy_next, failed_proxies, setup_ok)
                     ELSE [current |-> current_proxy, next |-> proxy_next,
                           failed |-> failed_proxies]
          IN  IF result = "ok"
              THEN /\ exec_log' = fetched
                   /\ request_count' = request_count + 1
                   /\ outcome' = SuccessResult(exec_video)
                   /\ exec_pc' = "returned"
                   /\ UNCHANGED <<attempt, current_proxy, proxy_next, failed_proxies>>
              ELSE IF branch = "permanent"
              THEN /\ exec_log' = fetched
                   /\ outcome' = BatchFailure(exec_video)
                   /\ exec_pc' = "returned"
                   /\ UNCHANGED <<attempt, request_count, current_proxy, proxy_next,
                                  failed_proxies>>
              ELSE /\ exec_log' = IF branch = "blocked" /\ ~use_proxies
                                  THEN Append(fetched, DelayEvent("block_delay", attempt))
                                  ELSE fetched
                   /\ current_proxy' = rot.current
                   /\ proxy_next' = rot.next
                   /\ failed_proxies' = rot.failed
                   /\ NextAttemptOrGiveUp(BatchFailure(exec_video))
                   /\ UNCHANGED request_count
    /\ UNCHANGED <<ledger_vars, batch_files, ext_vars, orch_vars, tool_vars, exec_impl,
                   exec_video, ip_blocked, use_proxies, proxy_list, exec_calls>>

\* One turn of `for attempt in range(self.max_retries)` of
\* _rate_limited_request, with what TranscriptExtractor.get_transcript makes of
\* its return or its exception.
RateLimitedAttempt ==
    /\ exec_impl = "transcript_extractor"
    /\ exec_pc = "attempt"
    /\ \E result \in {"ok"} \cup ErrorMessages, setup_ok \in BOOLEAN :
          LET px == ProxyForAttempt(attempt, current_proxy, proxy_next,
                                    failed_proxies, setup_ok)
              pacing == DelayEvent(IF ip_blocked THEN "pacing_blocked"
                                   ELSE "pacing_normal", attempt)
              fetched == exec_log \o
                         <<pacing, FetchEvent(Identity(px.current), result, attempt)>>
              branch == ExtractorErrorBranch(result)
          IN  /\ proxy_next' = px.next
              /\ IF result = "ok"
                 THEN /\ exec_log' = fetched
                      /\ request_count' = request_count + 1
                      /\ outcome' = SuccessResult(exec_video)
                      /\ exec_pc' = "returned"
                      /\ current_proxy' = px.current
                      /\ failed_proxies' = px.failed
                      /\ UNCHANGED <<attempt, ip_blocked>>
                 ELSE IF branch = "permanent"
                 THEN /\ exec_log' = fetched
                      /\ outcome' = ExtractorFailure(exec_video, result)
                      /\ exec_pc' = "returned"
                      /\ current_proxy' = px.current
                      /\ failed_proxies' = px.failed
                      /\ UNCHANGED <<attempt, ip_blocked, request_count>>
                 ELSE /\ exec_log' =
                            Append(fetched,
                                   DelayEvent(IF branch = "blocked" THEN "cooldown"
                                              ELSE "backoff", attempt))
                      /\ ip_blocked' = (ip_blocked \/ branch = "blocked")
                      /\ IF branch = "temporary" /\ use_proxies /\ px.current # "None"
                         THEN /\ failed_proxies' = px.failed \cup {px.current}
                              /\ current_proxy' = "None"
                         ELSE /\ failed_proxies' = px.failed
                              /\ current_proxy' = px.current
                      /\ NextAttemptOrGiveUp(
                            ExtractorFailure(exec_video, ExhaustedMessage))
                      /\ UNCHANGED request_count
    /\ UNCHANGED <<ledger_vars, batch_files, ext_vars, orch_vars, tool_vars, exec_impl,
                   exec_video, use_proxies, proxy_list, exec_calls>>

\* An executor object after its constructor: either class, with or without a
\* proxy pool.
InitExecutor ==
    /\ catalog_data = <<>>
    /\ progress_data = FreshProgress
    /\ progress_file = AbsentFile
    /\ ledger_pc = "None"
    /\ ledger_call = NoCall
    /\ save_from = AbsentFile
    /\ save_to = AbsentFile
    /\ calls = 0
    /\ resume_result = 0
    /\ batch_files = {}
    /\ ExtractorIdle
    /\ OrchestratorIdle
    /\ ToolsIdle
    /\ exec_impl \in {"human_batch", "transcript_extractor"}
    /\ exec_pc = "idle"
    /\ exec_video = <<>>
    /\ attempt = 0
    /\ exec_log = <<>>
    /\ outcome = NoOutcome
    /\ ip_blocked = FALSE
    /\ request_count = 0
    /\ use_proxies \in BOOLEAN
    /\ proxy_list \in ProxyLists
    /\ ~use_proxies => proxy_list = <<>>
    /\ proxy_next = IF proxy_list = <<>> THEN 0 ELSE 1
    /\ current_proxy = "None"
    /\ failed_proxies = {}
    /\ exec_calls = 0

NextExecutor ==
    \/ StartGetTranscript
    \/ ProcessBatchRotate
    \/ BatchGetTranscriptAttempt
    \/ RateLimitedAttempt

SpecExecutor == InitExecutor /\ [][NextExecutor]_vars

----------------------------------------------------------------------------
\* transcript_extractor.py: the delays of TranscriptExtractor.
\* _rate_limited_request sleeps after every failed attempt it retries; only
\* the sleeps are kept here, the proxies and the request pacing are in the
\* executor above.  Seconds are exact fractions [num, den]; 2.5 ** attempt
\* is 5^attempt / 2^attempt.  A jitter draw is in hundredths.

MaxBackoffAttempt == 5
JitterSteps == 2

min_delay == 3
backoff_factor == [num |-> 5, den |-> 2]
BackoffCap == 30
JitterLow == 80
JitterHigh == 120
CoolOffBase == 300
CoolOffStep == 180

RECURSIVE Pow(_, _)
Pow(b, n) == IF n = 0 THEN 1 ELSE b * Pow(b, n - 1)

LeqQ(a, b) == a.num * b.den <= b.num * a.den
LessQ(a, b) == a.num * b.den < b.num * a.den

\* random.uniform(0.8, 1.2): the two ends and the points in between.
JitterDraws ==
    {JitterLow + ((JitterHigh - JitterLow) * k) \div JitterSteps : k \in 0..JitterSteps}

\* One delay: the attempt it was computed for, the branch that computed it,
\* min(base_delay, 30.0) and the value returned (slept).
Delay(n, branch, jitter, nominal, slept) ==
    [attempt |-> n, branch |-> branch, jitter |-> jitter,
     nominal |-> nominal, num |-> slept.num, den |-> slept.den]

\* A faulty backoff: the exponential is not capped.
BackoffUncapped(n, jitter) ==
    LET base_delay == [num |-> min_delay * Pow(backoff_factor.num, n),
                       den |-> Pow(backoff_factor.den, n)]
    IN  Delay(n, "direct", jitter, base_delay,
              [num |-> base_delay.num * jitter, den |-> base_delay.den * 100])

\* A faulty backoff: the delay does not grow with the attempt number.
BackoffWithoutGrowth(n, jitter) ==
    LET base_delay == [num |-> min_delay, den |-> 1]
    IN  Delay(n, "direct", jitter, base_delay,
              [num |-> base_delay.num * jitter, den |-> base_delay.den * 100])

_calculate_backoff_delay(n, jitter) ==
    LET base_delay == [num |-> min_delay * Pow(backoff_factor.num, n),
                       den |-> Pow(backoff_factor.den, n)]
        max_delay == IF LeqQ(base_delay, [num |-> BackoffCap, den |-> 1])
                     THEN base_delay
                     ELSE [num |-> BackoffCap, den |-> 1]
    IN  Delay(n, "direct", jitter, max_delay,
              [num |-> max_delay.num * jitter, den |-> max_delay.den * 100])

\* delay = 300 + (attempt * 180) of the blocked branch.
CoolOff(n) ==
    LET d == [num |-> CoolOffBase + n * CoolOffStep, den |-> 1]
    IN  Delay(n, "blocked", 100, d, d)

\* _calculate_backoff_delay(attempt) called on its own.
CalculateBackoffDelay ==
    /\ backoff_pc = "idle"
    /\ \E n \in 0..MaxBackoffAttempt, jitter \in JitterDraws :
          backoff_call' = _calculate_backoff_delay(n, jitter)
    /\ UNCHANGED <<ledger_vars, batch_files, ext_vars, orch_vars, exec_vars, select_vars,
                   merge_vars, shard_vars, backoff_pc, backoff_attempt,
                   backoff_delays>>

\* _rate_limited_request is entered.
StartRateLimitedRequest ==
    /\ backoff_pc = "idle"
    /\ backoff_pc' = "running"
    /\ backoff_attempt' = 0
    /\ backoff_delays' = <<>>
    /\ backoff_call' = NoDelay
    /\ UNCHANGED <<ledger_vars, batch_files, ext_vars, orch_vars, exec_vars, select_vars,
                   merge_vars, shard_vars>>

\* One iteration of `for attempt in range(self.max_retries)`: the function
\* returns, or raises; a retried failure sleeps and goes on, and the loop
\* ends after max_retries failures.
BackoffAttempt ==
    /\ backoff_pc = "running"
    /\ \E result \in {"ok"} \cup ErrorMessages, jitter \in JitterDraws :
          LET branch == ExtractorErrorBranch(result)
              computed == _calculate_backoff_delay(backoff_attempt, jitter)
              slept == IF branch = "blocked" THEN CoolOff(backoff_attempt)
                       ELSE [computed EXCEPT !.branch = branch]
          IN  IF result = "ok"
              THEN /\ backoff_pc' = "returned"
                   /\ UNCHANGED <<backoff_attempt, backoff_delays, backoff_call>>
              ELSE IF branch = "permanent"
              THEN /\ backoff_pc' = "raised"
                   /\ UNCHANGED <<backoff_attempt, backoff_delays, backoff_call>>
              ELSE /\ backoff_delays' = Append(backoff_delays, slept)
                   /\ backoff_call' = IF branch = "blocked" THEN backoff_call
                                      ELSE computed
                   /\ backoff_attempt' = backoff_attempt + 1
                   /\ backoff_pc' = IF backoff_attempt + 1 < ExtractorMaxRetries
                                    THEN "running" ELSE "exhausted"
    /\ UNCHANGED <<ledger_vars, batch_files, ext_vars, orch_vars, exec_vars, select_vars,
                   merge_vars, shard_vars>>

\* No ledger, batch runner, orchestrator or executor is running.
PipelineIdle ==
    /\ catalog_data = <<>>
    /\ progress_data = FreshProgress
    /\ progress_file = AbsentFile
    /\ ledger_pc = "None"
    /\ ledger_call = NoCall
    /\ save_from = AbsentFile
    /\ save_to = AbsentFile
    /\ calls = 0
    /\ resume_result = 0
    /\ batch_files = {}
    /\ ExtractorIdle
    /\ OrchestratorIdle
    /\ ExecutorIdle

InitBackoff ==
    /\ PipelineIdle
    /\ SelectIdle
    /\ MergeIdle
    /\ ShardsIdle
    /\ backoff_pc = "idle"
    /\ backoff_attempt = 0
    /\ backoff_delays = <<>>
    /\ backoff_call = NoDelay

NextBackoff ==
    \/ CalculateBackoffDelay
    \/ StartRateLimitedRequest
    \/ BackoffAttempt

SpecBackoff == InitBackoff /\ [][NextBackoff]_vars

----------------------------------------------------------------------------
\* merge_batch_files.py: merge_batch_files, one run.

MergeCatalogLen == 4
MaxMergeFiles == 2

\* The batch the runner makes of the catalog positions s..s+k-1, every item
\* attempted: all of them succeed, or every second one (items 1, 3, ... of
\* the batch, counted from 0) fails for good.
BatchOfCatalog(s, k, some_fail) ==
    [i \in 1..k |-> Video(CatalogOf(MergeCatalogLen)[s + i],
                          ~(some_fail /\ i % 2 = 0))]

\* What a batch file in data/processed can hold: a batch, or nothing that
\* json.load can read.
MergeContents ==
    {[state |-> "complete", videos |-> BatchOfCatalog(r[1], r[2], some_fail)] :
        r \in {x \in (0..(MergeCatalogLen - 1)) \X (1..MergeCatalogLen) :
                   x[1] + x[2] <= MergeCatalogLen},
        some_fail \in BOOLEAN} \cup
    {[state |-> "empty", videos |-> <<>>]}

\* The t-th batch file written to data/processed.
FileOnDisk(t, content) ==
    [name |-> <<1, 1, t>>, state |-> content.state, videos |-> content.videos,
     success_count |-> Cardinality(Successes(content.videos))]

\* A video of all_videos: the fields of the batch file and video_index.
Indexed(video, video_index) ==
    [video_id |-> video.video_id,
     transcript_available |-> video.transcript_available,
     error |-> video.error,
     video_index |-> video_index]

\* for i, video in enumerate(videos): video['video_index'] =
\* len(all_videos) + i; all_videos.append(video).  i counts from 0 and
\* all_videos grows inside the loop.
RECURSIVE EnumerateVideos(_, _, _)
EnumerateVideos(all_videos, videos, i) ==
    IF i >= Len(videos) THEN all_videos
    ELSE EnumerateVideos(
            Append(all_videos, Indexed(videos[i + 1], Len(all_videos) + i)),
            videos, i + 1)

\* for batch_file in batch_files: a file that cannot be read is skipped.
RECURSIVE CollectVideos(_, _, _)
CollectVideos(all_videos, files, k) ==
    IF k > Len(files) THEN all_videos
    ELSE IF files[k].state = "complete"
    THEN CollectVideos(EnumerateVideos(all_videos, files[k].videos, 0), files, k + 1)
    ELSE CollectVideos(all_videos, files, k + 1)

\* all_videos.sort(key=video_index): the sort is stable.
RECURSIVE InsertByIndex(_, _)
InsertByIndex(sorted, video) ==
    IF sorted = <<>> THEN <<video>>
    ELSE IF Head(sorted).video_index <= video.video_index
    THEN <<Head(sorted)>> \o InsertByIndex(Tail(sorted), video)
    ELSE <<video>> \o sorted

RECURSIVE SortByIndex(_, _)
SortByIndex(sorted, rest) ==
    IF rest = <<>> THEN sorted
    ELSE SortByIndex(InsertByIndex(sorted, Head(rest)), Tail(rest))

\* The deduplication loop: the first video of every video_index is kept.
RECURSIVE KeepFirstOfIndex(_, _, _)
KeepFirstOfIndex(unique_videos, seen_indices, rest) ==
    IF rest = <<>> THEN unique_videos
    ELSE IF Head(rest).video_index \notin seen_indices
    THEN KeepFirstOfIndex(Append(unique_videos, Head(rest)),
                          seen_indices \cup {Head(rest).video_index}, Tail(rest))
    ELSE KeepFirstOfIndex(unique_videos, seen_indices, Tail(rest))

\* sorted(S) of a set of integers.
RECURSIVE SortedList(_)
SortedList(S) ==
    IF S = {} THEN <<>> ELSE <<SetMin(S)>> \o SortedList(S \ {SetMin(S)})

\* A faulty next_resume_index: the frontier, whatever is missing below it.
ResumeAtFrontier(indices, missing_indices) == SetMax(indices) + 1

\* "next_resume_index": max(indices) + 1.
next_resume_index(indices, missing_indices) == SetMax(indices) + 1

\* A faulty gap report: nothing is reported missing.
MissingNothing(indices) == {}

\* expected_indices - unique_indices.
MissingIndices(indices) == (SetMin(indices)..SetMax(indices)) \ indices

\* merge_batch_files(data_dir, output_file) for the files glob.glob found, in
\* the order it returned them.
merge_batch_files(files) ==
    LET all_videos == SortByIndex(<<>>, CollectVideos(<<>>, files, 1))
        unique_indices == {all_videos[i].video_index : i \in 1..Len(all_videos)}
        duplicates == Len(all_videos) - Cardinality(unique_indices)
        unique_videos == IF duplicates > 0
                         THEN KeepFirstOfIndex(<<>>, {}, all_videos)
                         ELSE all_videos
        missing_indices == MissingIndices(unique_indices)
    IN  IF files = <<>> \/ all_videos = <<>> THEN NoMerge
        ELSE [returned |-> "merged_data",
              source_files |-> Len(files),
              total_videos |-> Len(unique_videos),
              index_min |-> SetMin(unique_indices),
              index_max |-> SetMax(unique_indices),
              next_resume_index |-> next_resume_index(unique_indices, missing_indices),
              duplicates_removed |-> duplicates,
              missing_indices |-> SortedList(missing_indices),
              videos |-> unique_videos]

\* One run of the merge script.
MergeBatchFiles ==
    /\ merge_pc = "idle"
    /\ merged_data' = merge_batch_files(merge_glob)
    /\ merge_pc' = "done"
    /\ UNCHANGED <<ledger_vars, batch_files, ext_vars, orch_vars, exec_vars, select_vars,
                   backoff_vars, shard_vars, merge_glob>>

\* data/processed holds up to MaxMergeFiles batch files of earlier runs; glob
\* returns them in any order.  The ledger is the one of a first run.
InitMerge ==
    /\ catalog_data = CatalogOf(MergeCatalogLen)
    /\ progress_data = FreshProgress
    /\ progress_file = AbsentFile
    /\ ledger_pc = "idle"
    /\ ledger_call = NoCall
    /\ save_from = AbsentFile
    /\ save_to = AbsentFile
    /\ calls = 0
    /\ resume_result = 0
    /\ ExtractorIdle
    /\ OrchestratorIdle
    /\ ExecutorIdle
    /\ BackoffIdle
    /\ ShardsIdle
    /\ SelectIdle
    /\ \E n \in 0..MaxMergeFiles :
          \E contents \in [1..n -> MergeContents], order \in Permutations(1..n) :
              /\ batch_files = {FileOnDisk(t, contents[t]) : t \in 1..n}
              /\ merge_glob = [i \in 1..n |-> FileOnDisk(order[i], contents[order[i]])]
    /\ merge_pc = "idle"
    /\ merged_data = NoMerge

NextMerge == MergeBatchFiles

SpecMerge == InitMerge /\ [][NextMerge]_vars

----------------------------------------------------------------------------
\* transcript_extractor_human_batch.py: main with --create-parallel, and the
\* scripts it creates run side by side (`python scripts/parallel_batch_NN.py &`).

MaxShards == 2
MaxShardTarget == 4
MaxShardClock == 1

\* A faulty share: the last script is given no more than the others.
ScriptTargetWithoutRemainder(i, create_parallel, target_videos) ==
    target_videos \div create_parallel

\* script_target of the i-th script, i counted from 0: videos_per_script, and
\* for the last script what is left of target_videos.
ScriptTarget(i, create_parallel, target_videos) ==
    IF i = create_parallel - 1
    THEN target_videos - i * (target_videos \div create_parallel)
    ELSE target_videos \div create_parallel

\* The arguments create_parallel_script writes into the i-th script.
ParallelScript(i, args) ==
    [script_id |-> i + 1,
     target_videos |-> ScriptTarget(i, args.create_parallel, args.target_videos),
     start_index |-> args.start_index
                        + i * (args.target_videos \div args.create_parallel),
     videos_per_batch |-> args.videos_per_batch]

\* The positions of filtered_videos, the catalog after the duration filter.
FilteredPositions == [i \in 1..ExtCatalogLen |-> i - 1]

\* len(batches) of the run a script makes.
TotalBatches(script) ==
    Len(SplitIntoBatches(
            Slice(FilteredPositions, script.start_index,
                  script.start_index + script.target_videos),
            script.videos_per_batch))

\* A script that has not been started.
ShardCreated == [pc |-> "created", batch_number |-> 0, total_batches |-> 0,
                 timestamp |-> 0]

\* main, `if args.create_parallel:` with all turns of its loop.
CreateParallel ==
    /\ par_pc = "start"
    /\ par_args.create_parallel >= 1
    /\ scripts_created' =
          [k \in 1..par_args.create_parallel |-> ParallelScript(k - 1, par_args)]
    /\ shard_run' = [k \in 1..par_args.create_parallel |-> ShardCreated]
    /\ par_pc' = "created"
    /\ UNCHANGED <<ledger_vars, batch_files, ext_vars, orch_vars, exec_vars, select_vars,
                   backoff_vars, merge_vars, par_args, shard_now, shard_writes>>

\* A created script is started: process_human_like_batches up to the split
\* into batches.
StartShard ==
    \E k \in DOMAIN shard_run :
        /\ par_pc = "created"
        /\ shard_run[k].pc = "created"
        /\ shard_run' = [shard_run EXCEPT ![k] =
              [pc |-> IF TotalBatches(scripts_created[k]) = 0 THEN "done" ELSE "ready",
               batch_number |-> IF TotalBatches(scripts_created[k]) = 0 THEN 0 ELSE 1,
               total_batches |-> TotalBatches(scripts_created[k]),
               timestamp |-> 0]]
        /\ UNCHANGED <<ledger_vars, batch_files, ext_vars, orch_vars, exec_vars, select_vars,
                       backoff_vars, merge_vars, par_pc, par_args, scripts_created,
                       shard_now, shard_writes>>

\* timestamp = int(time.time()) and batch_filename of the next batch; after
\* the first batch the break of wait_between_batches has gone by.
ShardNameBatch ==
    \E k \in DOMAIN shard_run :
        /\ par_pc = "created"
        /\ shard_run[k].pc = "ready"
        /\ shard_run[k].batch_number > 1 => shard_now > shard_run[k].timestamp
        /\ shard_run' = [shard_run EXCEPT ![k].pc = "processing",
                                          ![k].timestamp = shard_now]
        /\ UNCHANGED <<ledger_vars, batch_files, ext_vars, orch_vars, exec_vars, select_vars,
                       backoff_vars, merge_vars, par_pc, par_args, scripts_created,
                       shard_now, shard_writes>>

\* process_batch, open(batch_filename, 'w') and json.dump: the file of that
\* name is created or replaced.
ShardWriteBatch ==
    \E k \in DOMAIN shard_run :
        /\ par_pc = "created"
        /\ shard_run[k].pc = "processing"
        /\ shard_writes' = shard_writes \cup
              {[shard |-> k,
                path |-> <<shard_run[k].batch_number, shard_run[k].total_batches,
                           shard_run[k].timestamp>>]}
        /\ shard_run' = [shard_run EXCEPT
              ![k].pc = IF shard_run[k].batch_number < shard_run[k].total_batches
                        THEN "ready" ELSE "done",
              ![k].batch_number = IF shard_run[k].batch_number < shard_run[k].total_batches
                                  THEN shard_run[k].batch_number + 1
                                  ELSE shard_run[k].batch_number]
        /\ UNCHANGED <<ledger_vars, batch_files, ext_vars, orch_vars, exec_vars, select_vars,
                       backoff_vars, merge_vars, par_pc, par_args, scripts_created,
                       shard_now>>

\* A second of wall-clock time goes by.
ShardTick ==
    /\ par_pc = "created"
    /\ shard_now < MaxShardClock
    /\ shard_now' = shard_now + 1
    /\ UNCHANGED <<ledger_vars, batch_files, ext_vars, orch_vars, exec_vars, select_vars,
                   backoff_vars, merge_vars, par_pc, par_args, scripts_created,
                   shard_run, shard_writes>>

InitShards ==
    /\ PipelineIdle
    /\ SelectIdle
    /\ BackoffIdle
    /\ MergeIdle
    /\ par_pc = "start"
    /\ par_args \in [target_videos : 0..MaxShardTarget,
                     start_index : 0..MaxStart,
                     create_parallel : 1..MaxShards,
                     videos_per_batch : 1..MaxBatch]
    /\ scripts_created = <<>>
    /\ shard_run = <<>>
    /\ shard_now = 0
    /\ shard_writes = {}

NextShards ==
    \/ CreateParallel
    \/ StartShard
    \/ ShardNameBatch
    \/ ShardWriteBatch
    \/ ShardTick

SpecShards == InitShards /\ [][NextShards]_vars

----------------------------------------------------------------------------
\* _get_next_proxy of HumanLikeBatchExtractor and of TranscriptExtractor (the
\* two functions are the same), called any number of times on one object
\* between additions to failed_proxies.

MaxProxyCalls == 4      \* _get_next_proxy calls per behaviour

\* self._get_next_proxy() on the object.
GetNextProxy ==
    /\ exec_pc = "idle"
    /\ proxy_calls < MaxProxyCalls
    /\ proxy_calls' = proxy_calls + 1
    /\ LET r == _get_next_proxy(use_proxies, proxy_list, proxy_next, failed_proxies)
       IN  /\ proxy_call' = [op |-> "_get_next_proxy", returned |-> r.proxy,
                             cursor |-> proxy_next, failed_before |-> failed_proxies,
                             failed_after |-> r.failed]
           /\ proxy_next' = r.next
           /\ failed_proxies' = r.failed
    /\ UNCHANGED <<ledger_vars, batch_files, ext_vars, orch_vars, backoff_vars,
                   merge_vars, shard_vars, vpn_vars, exec_impl, exec_pc,
                   exec_video, attempt, exec_log, outcome, ip_blocked,
                   request_count, use_proxies, proxy_list, current_proxy,
                   exec_calls>>

\* self.failed_proxies.add(proxy): a proxy of the pool fails its test or is
\* blocked.
MarkProxyFailed ==
    /\ exec_pc = "idle"
    /\ use_proxies
    /\ \E i \in 1..Len(proxy_list) :
          /\ proxy_list[i] \notin failed_proxies
          /\ failed_proxies' = failed_proxies \cup {proxy_list[i]}
    /\ proxy_call' = NoProxyCall
    /\ UNCHANGED <<ledger_vars, batch_files, ext_vars, orch_vars, backoff_vars,
                   merge_vars, shard_vars, vpn_vars, exec_impl, exec_pc,
                   exec_video, attempt, exec_log, outcome, ip_blocked,
                   request_count, use_proxies, proxy_list, proxy_next,
                   current_proxy, exec_calls, proxy_calls>>

\* An object of either class after its constructor, with or without a pool.
InitProxyPool ==
    /\ catalog_data = <<>>
    /\ progress_data = FreshProgress
    /\ progress_file = AbsentFile
    /\ ledger_pc = "None"
    /\ ledger_call = NoCall
    /\ save_from = AbsentFile
    /\ save_to = AbsentFile
    /\ calls = 0
    /\ resume_result = 0
    /\ batch_files = {}
    /\ ExtractorIdle
    /\ OrchestratorIdle
    /\ BackoffIdle /\ MergeIdle /\ ShardsIdle /\ VpnIdle
    /\ exec_impl \in {"human_batch", "transcript_extractor"}
    /\ exec_pc = "idle"
    /\ exec_video = <<>>
    /\ attempt = 0
    /\ exec_log = <<>>
    /\ outcome = NoOutcome
    /\ ip_blocked = FALSE
    /\ request_count = 0
    /\ use_proxies \in BOOLEAN
    /\ proxy_list \in ProxyLists
    /\ ~use_proxies => proxy_list = <<>>
    /\ proxy_next = IF proxy_list = <<>> THEN 0 ELSE 1
    /\ current_proxy = "None"
    /\ failed_proxies = {}
    /\ exec_calls = 0
    /\ proxy_call = NoProxyCall
    /\ proxy_calls = 0

NextProxyPool ==
    \/ GetNextProxy
    \/ MarkProxyFailed

SpecProxyPool == InitProxyPool /\ [][NextProxyPool]_vars

----------------------------------------------------------------------------
\* vpn_batch_orchestrator.py: the choice of the VPN location.

MaxSwitches == 3        \* switch_vpn_location calls per behaviour

\* self.vpn_regions, in the order of the dict.
vpn_regions ==
    << <<"northeast", <<"boston-us", "new-york-us", "philadelphia-us">> >>,
       <<"southeast", <<"atlanta-us", "miami-us", "charlotte-us">> >>,
       <<"midwest", <<"chicago-us", "detroit-us", "louisville-us">> >>,
       <<"south_central", <<"dallas-us", "oklahoma-city-us", "houston-us">> >>,
       <<"mountain", <<"denver-us", "phoenix-us", "salt-lake-us">> >>,
       <<"northwest", <<"seattle-us", "portland-us">> >>,
       <<"west", <<"los-angeles-us", "san-francisco-us", "idaho-falls-us">> >> >>

\* self.vpn_locations, as a set: random.choice does not depend on the order.
vpn_locations ==
    UNION {{vpn_regions[r][2][i] : i \in 1..Len(vpn_regions[r][2])} :
              r \in 1..Len(vpn_regions)}

\* self.location_to_region.get(loc): None for a location of no region.
location_to_region(loc) ==
    IF loc \in vpn_locations
    THEN LET r == CHOOSE r \in 1..Len(vpn_regions) :
                     \E i \in 1..Len(vpn_regions[r][2]) : vpn_regions[r][2][i] = loc
         IN  vpn_regions[r][1]
    ELSE "None"

tested_locations ==
    {"louisville-us", "idaho-falls-us", "phoenix-us", "seattle-us", "oklahoma-city-us"}

\* locations_used[-n:]
LastOf(used, n) ==
    {used[i] : i \in {j \in 1..Len(used) : j > Len(used) - n}}

\* The regions of the last two locations used; a location of no region is
\* left out.
RecentRegions(used) ==
    {location_to_region(loc) : loc \in LastOf(used, 2)} \ {"None"}

\* A faulty filter: every location, whatever its region.
LocationsOfAnyRegion(used) == vpn_locations

\* `if location_region not in recent_regions`
LocationsOfOtherRegions(used) ==
    {loc \in vpn_locations : location_to_region(loc) \notin RecentRegions(used)}

\* _select_geographically_diverse_location: the locations random.choice can
\* return.
_select_geographically_diverse_location(used) ==
    LET diverse == LocationsOfOtherRegions(used)
        unused == {loc \in vpn_locations : loc \notin LastOf(used, 3)}
        available_locations ==
            IF diverse # {} THEN diverse
            ELSE IF unused # {} THEN unused
            ELSE vpn_locations
        tested_available == available_locations \cap tested_locations
    IN  IF tested_available # {} THEN tested_available ELSE available_locations

\* switch_vpn_location(target_location): without a target the location is
\* selected; when one of the methods works the location becomes the current
\* one and is appended to locations_used, otherwise nothing changes.
SwitchVpn ==
    /\ vpn_switches < MaxSwitches
    /\ vpn_switches' = vpn_switches + 1
    /\ \E given \in BOOLEAN, ok \in BOOLEAN :
          \E target_location \in
                IF given THEN vpn_locations \cup {"custom-location"}
                ELSE _select_geographically_diverse_location(locations_used) :
             /\ vpn_selected' = [selected |-> ~given, before |-> locations_used,
                                 location |-> target_location]
             /\ IF ok
                THEN /\ current_location' = target_location
                     /\ locations_used' = Append(locations_used, target_location)
                ELSE UNCHANGED <<current_location, locations_used>>
    /\ UNCHANGED <<ledger_vars, batch_files, ext_vars, orch_vars, exec_vars,
                   backoff_vars, merge_vars, shard_vars, proxy_vars>>

\* A VPNBatchOrchestrator after its constructor.
InitLocations ==
    /\ PipelineIdle
    /\ BackoffIdle /\ MergeIdle /\ ShardsIdle /\ ProxyIdle
    /\ current_location = "None"
    /\ locations_used = <<>>
    /\ vpn_selected = NoSelection
    /\ vpn_switches = 0

NextLocations == SwitchVpn

SpecLocations == InitLocations /\ [][NextLocations]_vars

----------------------------------------------------------------------------
\* C1: get_next_resume_index returns 0 for an empty set P of ledger positions;
\* otherwise the smallest position of 0..max(P) that is not in P, or max(P)+1
\* when 0..max(P) is covered.
C1_ResumeIndexIsFirstGap ==
    ledger_call.op = "get_next_resume_index" =>
        LET P == ProcessedIndices(progress_data)
        IN  IF P = {} THEN resume_result = 0
            ELSE LET gaps == (0..SetMax(P)) \ P
                 IN  IF gaps # {} THEN resume_result = SetMin(gaps)
                     ELSE resume_result = SetMax(P) + 1

C1_Witness ==
    /\ ledger_call.op = "get_next_resume_index"
    /\ ProcessedIndices(progress_data) = {0, 1, 2, 4, 5}
    /\ resume_result = 3

\* C2: recording an outcome (mark_video_processed, scan_existing_batches) for
\* an itemID that already has a record leaves the ledger as it was: the
\* position, batch reference and status of the first record are kept.
C2_FirstWriteWins ==
    [][(ledger_call'.op \in {"mark_video_processed", "scan_existing_batches"}
        /\ calls' = calls + 1)
       => \A v \in DOMAIN progress_data.processed_videos :
             progress_data'.processed_videos[v] = progress_data.processed_videos[v]]_vars

\* C3: after a crash at any point of a save, the ledger file holds the complete
\* previous ledger or the complete new one.
C3_CrashConsistentSave ==
    ledger_pc \in {"crashed", "load_failed"} => progress_file \in {save_from, save_to}

\* C4: a batch file is written only after every item of the batch has been
\* attempted: while the items of a batch are executed, and after a crash during
\* any of them, no batch file of that batch is on disk and the resume index
\* (of a ledger scan, and of the database status) is what it was when the
\* batch started.
C4_NoBatchFileBeforeAllItemsAttempted ==
    (ext_pc = "item" \/ (ext_pc = "crashed" /\ crash_at.pc = "item")) =>
        /\ \A f \in batch_files : f.name # batch_filename
        /\ batch_files = at_batch_start.batch_files
        /\ database = at_batch_start.database
        /\ ScanResumeIndex(batch_files) = at_batch_start.scan_resume
        /\ StatusNextIndex(database) = at_batch_start.status_next

C4_Witness ==
    /\ ext_pc = "crashed"
    /\ crash_at.pc = "item"
    /\ crash_at.batch_number = 2
    /\ crash_at.item_index = 2
    /\ Len(results) = 1
    /\ batch_files # {}

\* C5: a batch that ends with zero successful items leaves no batch file, and
\* no database record of any of its items.
C5_FailedBatchNotPersisted ==
    ext_pc = "done" =>
        /\ \A f \in batch_files : f.state = "complete" => f.success_count > 0
        /\ \A f \in batch_files :
              (f.state = "complete" /\ f.success_count = 0) =>
                 \A i \in 1..Len(f.videos), k \in 1..Len(database) :
                    database[k].video_id # f.videos[i].video_id

\* C7: the orchestrator takes a batch run for succeeded exactly when at least
\* one of its items reached Success: run_batch_script, applied to the exit
\* code and the stdout of a run that ended normally, is True iff some item of
\* the run has a transcript.
C7_BatchSucceededIffSomeItemSucceeded ==
    ext_pc = "done" =>
        (run_batch_script([raised |-> FALSE, return_code |-> exit_code,
                           stdout |-> stdout])
         <=> \E k \in 1..Len(database) : database[k].transcript_available)

\* C6: after a failed batch processed_videos is what it was, the next step is
\* one identity rotation, and the batch attempt after it has the same starting
\* index and the same size.
C6_FailedBatchRetriedAtSameIndex ==
    \A i \in 1..Len(history) :
        (history[i].type = "batch" /\ ~history[i].ok) =>
            /\ i = Len(history) =>
                  orch_pc = "switch_after_failure"
                  /\ processed_videos = history[i].start
            /\ i < Len(history) => history[i + 1].type = "switch"
            /\ i + 1 = Len(history) => processed_videos = history[i].start
            /\ i + 2 <= Len(history) =>
                  /\ history[i + 2].type = "batch"
                  /\ history[i + 2].start = history[i].start
                  /\ history[i + 2].size = history[i].size

C6_Witness ==
    \E i \in 1..Len(history) :
        /\ history[i].type = "batch" /\ ~history[i].ok
        /\ history[i].start > start_index
        /\ i + 2 <= Len(history)
        /\ history[i + 2].type = "batch" /\ history[i + 2].ok

\* C8: without a --start-index the first batch starts at the resume index of
\* the durable ledger.
C8_FirstBatchStartsAtResumeIndex ==
    (~orch_args.start_given /\ Len(history) >= 1) =>
        history[1].start = get_next_resume_index(progress_file.data)

\* C9: run_automated_batches returns True only with processed_videos equal to
\* start_index + total_videos, failed batches or not.
C9_DoneOnlyAtRequestedTotal ==
    orch_result = "True" =>
        processed_videos = start_index + orch_args.total_videos

C9_Witness ==
    /\ orch_result = "True"
    /\ FailedBatches(history) # {}
    /\ orch_args.total_videos = MaxTotal
    /\ start_index > 0

SuccessfulBatches(h) == {i \in 1..Len(h) : h[i].type = "batch" /\ h[i].ok}

\* C10: with videos_per_batch >= 1, in every state of run_automated_batches
\* start_index <= processed_videos <= start_index + total_videos, every batch
\* has 1..videos_per_batch items, and every successful batch starts where the
\* successful batch before it ended (the first one at start_index).
C10_BatchRangesInvariant ==
    (orch_pc # "start" /\ orch_args.batch_size >= 1) =>
        /\ start_index <= processed_videos
        /\ processed_videos <= start_index + orch_args.total_videos
        /\ \A i \in 1..Len(history) :
              history[i].type = "batch" =>
                 1 <= history[i].size /\ history[i].size <= orch_args.batch_size
        /\ \A i \in SuccessfulBatches(history) :
              LET before == {j \in SuccessfulBatches(history) : j < i}
              IN  history[i].start =
                     IF before = {} THEN start_index
                     ELSE history[SetMax(before)].start + history[SetMax(before)].size

C10_Witness ==
    /\ Cardinality(SuccessfulBatches(history)) >= 2
    /\ FailedBatches(history) # {}
    /\ orch_args.batch_size = 2
    /\ processed_videos = start_index + orch_args.total_videos

IsBatch(e) == e.type = "batch"
IsSwitch(e) == e.type = "switch"

\* The batch attempt that reaches the requested total.
IsFinalBatch(e) == IsBatch(e) /\ e.ok /\ e.start + e.size = target_end_index

\* C11: between two consecutive batch attempts, after a successful or a failed
\* batch, exactly one switch_vpn_location is performed (and it succeeded), no
\* switch precedes the first batch, and nothing, so no switch either, follows
\* the batch that reaches the requested total.
C11_OneRotationBetweenBatches ==
    /\ Len(history) >= 1 => IsBatch(history[1])
    /\ \A i \in 1..(Len(history) - 1) :
          /\ IsBatch(history[i]) => IsSwitch(history[i + 1])
          /\ IsSwitch(history[i]) => (history[i].ok /\ IsBatch(history[i + 1]))
          /\ ~IsFinalBatch(history[i])
    /\ \A i \in 1..Len(history) :
          (IsBatch(history[i]) /\ i = Len(history)) =>
             orch_pc = (IF IsFinalBatch(history[i]) THEN "loop"
                        ELSE IF history[i].ok THEN "switch_after_success"
                        ELSE "switch_after_failure")
             \/ (orch_pc = "returned" /\ IsFinalBatch(history[i]))

C11_Witness ==
    /\ orch_result = "True"
    /\ Len(history) = 5
    /\ IsBatch(history[1]) /\ ~history[1].ok
    /\ IsSwitch(history[2])
    /\ IsBatch(history[3]) /\ history[3].ok
    /\ IsSwitch(history[4])
    /\ IsFinalBatch(history[5])

\* The video ids of a sequence of processed videos.
VideoIdsOf(videos) == [i \in 1..Len(videos) |-> videos[i].video_id]

\* C12: process_batch attempts the items of its batch in order, whatever the
\* results of the items before: while the loop runs the results are those of
\* the first item_index - 1 items, and every batch file the run has written
\* holds one result per item of its batch, in the order of the items.
C12_EveryItemAttemptedInOrder ==
    /\ ext_pc = "item" =>
          /\ Len(results) = item_index - 1
          /\ VideoIdsOf(results) = SubSeq(batches[batch_number], 1, item_index - 1)
    /\ ext_pc \in {"write_open", "write_dump"} =>
          VideoIdsOf(results) = batches[batch_number]
    /\ \A k \in 1..Len(run_files) :
          \E f \in batch_files :
             /\ f.name = run_files[k]
             /\ f.state = "complete"
             /\ VideoIdsOf(f.videos) = batches[run_files[k][1]]

C12_Witness ==
    /\ ext_pc = "done"
    /\ \E f \in batch_files :
          /\ f.name \in {run_files[k] : k \in 1..Len(run_files)}
          /\ Len(f.videos) = 2
          /\ ~f.videos[1].transcript_available
          /\ f.videos[2].transcript_available

\* The classes of the failed fetches of the call.
FetchClasses(log) ==
    {FailureClass(log[i].result) : i \in {j \in Fetches(log) : log[j].result # "ok"}}

\* C13: whatever the fetches answer, one get_transcript call makes at most
\* max_retries fetches (one per turn of the loop, and the loop variable stays
\* below max_retries), and when it has returned there is exactly one result,
\* that of the video it was called with.
C13_BoundedRetriesOneOutcome ==
    /\ exec_pc \in {"attempt", "returned"} =>
          /\ Cardinality(Fetches(exec_log)) <= max_retries(exec_impl)
          /\ attempt < max_retries(exec_impl)
    /\ exec_pc = "attempt" =>
          /\ Cardinality(Fetches(exec_log)) = attempt
          /\ outcome = NoOutcome
    /\ exec_pc = "returned" =>
          /\ outcome # NoOutcome
          /\ outcome.video_id = exec_video
          /\ outcome.transcript_available =>
                exec_log[Len(exec_log)].result = "ok"

C13_Witness ==
    /\ exec_impl = "transcript_extractor"
    /\ exec_pc = "returned"
    /\ Cardinality(Fetches(exec_log)) = ExtractorMaxRetries
    /\ FetchClasses(exec_log) = {"Blocked", "RateLimited", "Transient"}
    /\ ~outcome.transcript_available

\* The fetches of the call that failed with an error of the given class.
FailedFetches(log, class) ==
    {i \in Fetches(log) : log[i].result # "ok" /\ FailureClass(log[i].result) = class}

\* C14: a fetch that fails with a terminal error is the last thing the call
\* does: no delay and no fetch follow it, whatever the attempt, and the call
\* has returned a result without a transcript.
C14_TerminalFailureEndsCall ==
    \A i \in FailedFetches(exec_log, "Terminal") :
        /\ i = Len(exec_log)
        /\ exec_pc = "returned"
        /\ ~outcome.transcript_available
        /\ outcome.video_id = exec_video

C14_Witness ==
    /\ exec_pc = "returned"
    /\ \E i \in FailedFetches(exec_log, "Terminal") : exec_log[i].attempt = 2
    /\ FailedFetches(exec_log, "Blocked") # {}
    /\ exec_impl = "human_batch"

\* An identifier of the fixed length, of characters of the class only.
HasIdFormat(video_id) ==
    /\ Len(video_id) = IdLength
    /\ \A i \in 1..Len(video_id) : video_id[i] = "w"

\* C15: a call with an identifier that is not IdLength characters of
\* [a-zA-Z0-9_-] has returned at once: no fetch and no delay were made, and the
\* result is the failure 'Invalid video ID format'.
C15_MalformedIdRejectedBeforeFetch ==
    (exec_pc \in {"attempt", "returned"} /\ ~HasIdFormat(exec_video)) =>
        /\ exec_pc = "returned"
        /\ exec_log = <<>>
        /\ outcome = FailureResult(exec_video, InvalidIdMessage, "None")

\* The call has used up its retries: max_retries fetches, each failed with a
\* blocked, rate-limited or transient error.
RetriesExhausted ==
    /\ exec_pc = "returned"
    /\ Cardinality(Fetches(exec_log)) = max_retries(exec_impl)
    /\ \A i \in Fetches(exec_log) :
          /\ exec_log[i].result # "ok"
          /\ FailureClass(exec_log[i].result) \in {"Blocked", "RateLimited", "Transient"}

\* The results get_transcript returns for a video whose fetch failed with a
\* terminal error.
TerminalOutcomes(impl, video_id) ==
    IF impl = "human_batch"
    THEN {BatchFailure(video_id) :
             m \in {e \in ErrorMessages : FailureClass(e) = "Terminal"}}
    ELSE {ExtractorFailure(video_id, m) :
             m \in {e \in ErrorMessages : FailureClass(e) = "Terminal"}}

\* C16: the result of a call that used up its retries on blocked, rate-limited
\* or transient failures has no transcript and differs from every result a
\* terminal failure of the same video yields.
C16_ExhaustedDistinctFromTerminal ==
    RetriesExhausted =>
        /\ ~outcome.transcript_available
        /\ outcome \notin TerminalOutcomes(exec_impl, exec_video)

\* The entries of a video in the readable batch files.
EntriesOf(video_id) ==
    {e \in UNION {{f.videos[i] : i \in 1..Len(f.videos)} :
                     f \in {g \in batch_files : g.state = "complete"}} :
        e.video_id = video_id}

\* Every entry of the video is the result of a call that gave up: no
\* transcript, error 'Failed after retries'.
OnlyExhaustedEntries(video_id) ==
    /\ EntriesOf(video_id) # {}
    /\ \A e \in EntriesOf(video_id) :
          ~e.transcript_available /\ e.error = FailedAfterRetries

\* C17: when the ledger takes in the batch files (scan_existing_batches), a
\* video whose retries were exhausted gets no record: if it had none before
\* the scan it has none after it, so its position stays a gap.
C17_ExhaustedItemsStayGaps ==
    [][(ledger_call'.op = "scan_existing_batches" /\ calls' = calls + 1)
       => \A v \in VideoIds :
             (OnlyExhaustedEntries(v) /\ ~is_video_processed(progress_data, v))
                => ~is_video_processed(progress_data', v)]_vars

\* C18: a fetch that fails with a rate-limit error while attempts remain is
\* followed by a backoff delay and then by another fetch: the call does not
\* return on it.
C18_RateLimitedIsRetriedAfterBackoff ==
    \A i \in FailedFetches(exec_log, "RateLimited") :
        exec_log[i].attempt + 1 < max_retries(exec_impl) =>
            /\ i < Len(exec_log)
            /\ exec_log[i + 1].ev = "backoff"
            /\ exec_pc = "returned" => \E j \in Fetches(exec_log) : j > i

\* The fetch that follows fetch i in the log, if there is one.
NextFetchAfter(log, i) == {j \in Fetches(log) : j > i /\ \A k \in Fetches(log) : k > i => j <= k}

\* C19: with a pool of at least two proxies, the fetch that follows a fetch
\* blocked on a proxy of the pool goes out with another proxy.
C19_BlockedRetryUsesOtherIdentity ==
    (use_proxies /\ Len(proxy_list) >= 2) =>
        \A i \in FailedFetches(exec_log, "Blocked") :
            exec_log[i].proxy # "None" =>
                \A j \in NextFetchAfter(exec_log, i) :
                    exec_log[j].proxy # exec_log[i].proxy

\* C20: when a call has ended with a successful fetch the block state is
\* reset: ip_blocked is not set, so the pacing of the calls that follow is not
\* that of a blocked executor.
C20_SuccessResetsBlockState ==
    (exec_pc = "returned" /\ outcome.transcript_available) => ~ip_blocked

----------------------------------------------------------------------------
\* The delays of the running or finished request that _calculate_backoff_delay
\* computed (the cool-off of the blocked branch is not one of them).
BackoffDelays == {i \in 1..Len(backoff_delays) : backoff_delays[i].branch # "blocked"}

\* cap * 1.2, in seconds.
CapWithJitter == [num |-> BackoffCap * JitterHigh, den |-> 100]

\* C21: every delay _calculate_backoff_delay returns, for every attempt number
\* and every jitter draw in [0.8, 1.2], is at most cap * 1.2 = 36 seconds.
C21_BackoffNeverExceedsCap ==
    /\ backoff_call # NoDelay => LeqQ(backoff_call, CapWithJitter)
    /\ \A i \in BackoffDelays : LeqQ(backoff_delays[i], CapWithJitter)

\* A capped attempt with the largest jitter draw: the bound is reached.
C21_Witness ==
    /\ backoff_call # NoDelay
    /\ backoff_call.attempt = MaxBackoffAttempt
    /\ backoff_call.jitter = JitterHigh
    /\ ~LessQ(backoff_call, CapWithJitter)

\* C22: in a request that ends with its retries exhausted, the nominal delay
\* min(base_delay, cap) never decreases from one attempt to a later one, and
\* as long as it is below the cap the delay slept is not larger than any
\* later one.
C22_BackoffNonDecreasingUpToCap ==
    backoff_pc = "exhausted" =>
        \A i \in BackoffDelays : \A j \in BackoffDelays :
            i < j =>
                /\ LeqQ(backoff_delays[i].nominal, backoff_delays[j].nominal)
                /\ LessQ(backoff_delays[i].nominal, [num |-> BackoffCap, den |-> 1])
                       => LeqQ(backoff_delays[i], backoff_delays[j])

\* Five failed attempts, all of them backed off, with the largest jitter
\* draw followed by the smallest at every step.
C22_Witness ==
    /\ backoff_pc = "exhausted"
    /\ BackoffDelays = 1..ExtractorMaxRetries
    /\ \A i \in 1..ExtractorMaxRetries :
          backoff_delays[i].jitter = IF i % 2 = 1 THEN JitterHigh ELSE JitterLow
    /\ \E i \in BackoffDelays :
          ~LessQ(backoff_delays[i].nominal, [num |-> BackoffCap, den |-> 1])

----------------------------------------------------------------------------
\* The merge has run and returned a merged store.
Merged == merge_pc = "done" /\ merged_data.returned = "merged_data"

MergedIndices == {merged_data.videos[i].video_index : i \in 1..Len(merged_data.videos)}

\* C23: the merged store holds one record per video_id, and duplicates_removed
\* is the number of records the merge dropped.
C23_OneRecordPerItem ==
    Merged =>
        /\ \A i \in 1..Len(merged_data.videos) : \A j \in 1..Len(merged_data.videos) :
              merged_data.videos[i].video_id = merged_data.videos[j].video_id => i = j
        /\ merged_data.duplicates_removed =
              Len(CollectVideos(<<>>, merge_glob, 1)) - Len(merged_data.videos)

\* C24: the missing indices the merge reports are exactly the positions
\* between the lowest and the highest video_index of the merged store that no
\* merged video has, in ascending order; none is reported iff the range is
\* covered.
C24_GapsAreUncoveredPositions ==
    Merged =>
        LET missing == {merged_data.missing_indices[i] :
                           i \in 1..Len(merged_data.missing_indices)}
        IN  /\ MergedIndices # {}
            /\ merged_data.index_min = SetMin(MergedIndices)
            /\ merged_data.index_max = SetMax(MergedIndices)
            /\ missing = (SetMin(MergedIndices)..SetMax(MergedIndices)) \ MergedIndices
            /\ \A i \in 1..(Len(merged_data.missing_indices) - 1) :
                  merged_data.missing_indices[i] < merged_data.missing_indices[i + 1]
            /\ (merged_data.missing_indices = <<>>) <=>
                  (MergedIndices = SetMin(MergedIndices)..SetMax(MergedIndices))

\* Merged positions {0, 1, 3}: position 2 is reported missing.
C24_Witness ==
    /\ Merged
    /\ MergedIndices = {0, 1, 3}
    /\ merged_data.missing_indices = <<2>>

\* C25: next_resume_index of the merge metadata is the first missing index
\* when one is missing, and the highest index + 1 otherwise.
C25_ResumeIndexIsFirstGap ==
    Merged =>
        merged_data.next_resume_index =
            IF merged_data.missing_indices # <<>>
            THEN merged_data.missing_indices[1]
            ELSE merged_data.index_max + 1

\* C26: the merge of the same batch files in any other order returns the
\* same videos, the same missing indices and the same duplicate count.
C26_MergeIgnoresSourceOrder ==
    Merged =>
        \A order \in Permutations(1..Len(merge_glob)) :
            LET other == merge_batch_files([i \in 1..Len(merge_glob) |->
                                               merge_glob[order[i]]])
            IN  /\ other.videos = merged_data.videos
                /\ other.missing_indices = merged_data.missing_indices
                /\ other.duplicates_removed = merged_data.duplicates_removed

\* The catalog positions of the videos of a batch file.
PositionsOf(file) ==
    {_find_video_in_catalog(file.videos[i].video_id) : i \in 1..Len(file.videos)}

\* The file `new` is the output of a batch run over the positions s..s+k-1,
\* with at least one success, made when the ledger covered exactly 0..s-1.
BatchRunOn(new, s, k) ==
    /\ new \in batch_files
    /\ new.state = "complete"
    /\ new.success_count >= 1
    /\ k = Len(new.videos)
    /\ PositionsOf(new) = s..(s + k - 1)
    /\ \A f \in batch_files \ {new} : NameLess(f.name, new.name)
    /\ ProcessedIndices([processed_videos |-> ScannedLedger(batch_files \ {new})])
          = 0..(s - 1)

\* C27: after such a batch run the ledger holds a record for each of the k
\* items, the resume index is s + k and the merge reports nothing missing.
C27_BatchRunLeavesNoGap ==
    Merged =>
        \A new \in batch_files : \A s \in 0..MergeCatalogLen :
            BatchRunOn(new, s, Len(new.videos)) =>
                /\ \A i \in 1..Len(new.videos) :
                      new.videos[i].video_id \in DOMAIN ScannedLedger(batch_files)
                /\ ScanResumeIndex(batch_files) = s + Len(new.videos)
                /\ merged_data.missing_indices = <<>>

\* The ledger file exists and json.load cannot read it.
CorruptLedger == progress_file.state \in {"empty", "partial"}

\* C28: with a corrupt ledger file no batch is started and the file is left
\* as it is.
C28_CorruptLedgerStopsTheRun ==
    CorruptLedger =>
        /\ \A i \in 1..Len(history) : ~IsBatch(history[i])
        /\ progress_file = save_from

\* The positions a script is told to process: [start_index, start_index +
\* target_videos).
ShardRange(script) ==
    script.start_index..(script.start_index + script.target_videos - 1)

\* C29: the ranges of the scripts --create-parallel creates are contiguous
\* and follow one another without overlap, from start_index up to
\* start_index + target_videos.
C29_ShardRangesPartitionTheTarget ==
    par_pc = "created" =>
        /\ Len(scripts_created) = par_args.create_parallel
        /\ \A k \in DOMAIN scripts_created : scripts_created[k].target_videos >= 0
        /\ scripts_created[1].start_index = par_args.start_index
        /\ \A k \in 1..(Len(scripts_created) - 1) :
              scripts_created[k + 1].start_index =
                  scripts_created[k].start_index + scripts_created[k].target_videos
        /\ \A j \in DOMAIN scripts_created : \A k \in DOMAIN scripts_created :
              j # k => ShardRange(scripts_created[j]) \cap ShardRange(scripts_created[k]) = {}
        /\ UNION {ShardRange(scripts_created[k]) : k \in DOMAIN scripts_created}
              = par_args.start_index..(par_args.start_index + par_args.target_videos - 1)

\* Several scripts, a target that does not divide evenly: the last script
\* takes the remainder.
C29_Witness ==
    /\ par_pc = "created"
    /\ par_args.create_parallel >= 2
    /\ par_args.target_videos % par_args.create_parallel # 0
    /\ par_args.start_index > 0
    /\ scripts_created[Len(scripts_created)].target_videos
          > scripts_created[1].target_videos
    /\ scripts_created[1].target_videos > 0

\* C30: no batch file path is written by two different scripts.
C30_ShardsWriteDistinctFiles ==
    \A v \in shard_writes : \A w \in shard_writes :
        v.path = w.path => v.shard = w.shard

\* C31: within one orchestrator run at most one batch subprocess is alive at
\* any time, and an identity rotation starts only when no batch subprocess is
\* running.
C31_OneSubprocessNoneDuringSwitch ==
    /\ batch_processes <= 1
    /\ orch_pc \in {"switch_after_success", "switch_after_failure"} =>
          batch_processes = 0

\* C32: a batch whose items all ended in an error that is not retried, run by
\* a subprocess that ended by itself with exit code 0, is taken for done: the
\* run advances past its range.
C32_AllTerminalBatchAdvances ==
    (last_run.items = "all_terminal" /\ last_run.clean) =>
        /\ history[Len(history)].ok
        /\ processed_videos =
              history[Len(history)].start + history[Len(history)].size

\* C33: with videos_per_batch >= 1, every VPN switch succeeding and an item
\* with a transcript in every batch attempt, run_automated_batches returns
\* True with processed_videos = start_index + total_videos.
C33_RunReachesDone ==
    orch_args.batch_size >= 1 =>
        <>(/\ orch_pc = "returned"
           /\ orch_result = "True"
           /\ processed_videos = start_index + orch_args.total_videos)

\* The run was stopped and main printed `Resume with: --start-index
\* {orchestrator.processed_videos}`.
Stopped == orch_pc \in {"interrupted", "error"}

\* C39: when the run is stopped at any point, the resume index main prints is
\* start_index or the end of a successful batch, every index from start_index
\* up to it lies in a batch that run_batch_script reported successful, and no
\* successful batch reaches beyond it.
C39_InterruptReportsBatchBoundary ==
    Stopped =>
        LET done == SuccessfulBatches(history)
        IN  /\ processed_videos = start_index
               \/ \E i \in done :
                     processed_videos = history[i].start + history[i].size
            /\ \A p \in start_index..(processed_videos - 1) :
                  \E i \in done :
                     history[i].start <= p /\ p < history[i].start + history[i].size
            /\ \A i \in done :
                  history[i].start + history[i].size <= processed_videos

C39_Witness ==
    /\ orch_pc = "interrupted"
    /\ Cardinality(SuccessfulBatches(history)) >= 2
    /\ FailedBatches(history) # {}
    /\ ~history[Len(history)].ok
    /\ processed_videos < target_end_index

\* The proxies of the pool.
PoolOf(list) == {list[i] : i \in 1..Len(list)}

\* C34: with proxies in use and a non-empty pool, _get_next_proxy returns a
\* proxy of the pool that is not in failed_proxies when it is returned; when
\* every proxy of the pool had failed, failed_proxies is cleared and the proxy
\* returned is the one the cycle stood at.
C34_NextProxyIsUsableProxyOfPool ==
    (proxy_call.op = "_get_next_proxy" /\ use_proxies /\ proxy_list # <<>>) =>
        /\ proxy_call.returned \in PoolOf(proxy_list)
        /\ proxy_call.returned \notin proxy_call.failed_after
        /\ failed_proxies = proxy_call.failed_after
        /\ IF PoolOf(proxy_list) \subseteq proxy_call.failed_before
           THEN /\ proxy_call.failed_after = {}
                /\ proxy_call.returned = proxy_list[proxy_call.cursor]
           ELSE /\ proxy_call.failed_after = proxy_call.failed_before
                /\ proxy_call.returned \notin proxy_call.failed_before

C34_Witness ==
    /\ proxy_call.op = "_get_next_proxy"
    /\ Len(proxy_list) = MaxProxies
    /\ PoolOf(proxy_list) \subseteq proxy_call.failed_before
    /\ proxy_call.cursor > 1
    /\ proxy_call.failed_after = {}

\* The regions of the locations the selection looked back on.
RegionsBefore(call) == {location_to_region(loc) : loc \in LastOf(call.before, 2)}

\* C35: whatever locations_used holds, the location selected by
\* _select_geographically_diverse_location is of a region other than those of
\* the last two locations used.
C35_SelectedRegionDiffersFromLastTwo ==
    vpn_selected.selected =>
        /\ vpn_selected.location \in vpn_locations
        /\ location_to_region(vpn_selected.location) \notin RegionsBefore(vpn_selected)

C35_Witness ==
    /\ vpn_selected.selected
    /\ Len(vpn_selected.before) >= 2
    /\ Cardinality(RegionsBefore(vpn_selected)) = 2
    /\ RegionsBefore(vpn_selected) \subseteq
          {location_to_region(loc) : loc \in tested_locations}
    /\ locations_used = Append(vpn_selected.before, vpn_selected.location)

\* find_resume_index.py: processed_positions are the positions in the filtered
\* catalog of the videos of the database; the resume index is
\* max(processed_positions) + 1, and 0 when there is none.
find_resume_index(processed_positions) ==
    IF processed_positions = {} THEN 0 ELSE SetMax(processed_positions) + 1

\* verify_progress_against_filtered.py, for at least one matched video: the
\* first gap of range(max_processed + 1), else max_processed + 1.
RecommendedResumeIndex(processed_indices) ==
    LET max_processed == SetMax(processed_indices)
        gaps == (0..max_processed) \ processed_indices
    IN  IF gaps # {} THEN SetMin(gaps) ELSE max_processed + 1

\* The database that holds the videos of the positions P of the catalog.
DatabaseOf(P) ==
    [i \in 1..Cardinality(P) |-> Video(VideoIdPool[SortedList(P)[i] + 1], TRUE)]

\* C36: for one set of processed positions, get_next_resume_index,
\* find_resume_index, show_processing_status, and for a non-empty set
\* verify_progress_against_filtered and the next_resume_index of the merge,
\* give the same resume index.
C36_ResumeComputationsAgree ==
    ledger_call.op = "get_next_resume_index" =>
        LET P == ProcessedIndices(progress_data)
        IN  /\ find_resume_index(P) = resume_result
            /\ StatusNextIndex(DatabaseOf(P)) = resume_result
            /\ P # {} =>
                  /\ RecommendedResumeIndex(P) = resume_result
                  /\ next_resume_index(P, MissingIndices(P)) = resume_result

\* C37: a video whose video_id occurs once in all the batch files read is in
\* the merged store.
C37_UniqueItemSurvivesMerge ==
    Merged =>
        LET read == CollectVideos(<<>>, merge_glob, 1)
        IN  \A i \in 1..Len(read) :
               (\A j \in 1..Len(read) : read[j].video_id = read[i].video_id => j = i)
                  => \E k \in 1..Len(merged_data.videos) :
                        merged_data.videos[k].video_id = read[i].video_id

\* C38: the catalog_index the ledger records for a video is the position at
\* which the batch runner addresses it, its 0-based place in the list
\* --start-index counts in.
C38_LedgerPositionIsRunnerPosition ==
    ext_pc = "done" =>
        LET filtered_videos == FilterByDuration(input_videos)
            ledger == ScannedLedger(batch_files)
        IN  \A i \in 1..Len(filtered_videos) :
               filtered_videos[i] \in DOMAIN ledger =>
                  ledger[filtered_videos[i]].catalog_index = i - 1

====
